---- MODULE Spec2Model ----
(***************************************************************************)
(* Model of the MCP tool layer of mcp-azure-devops: the registered tools,  *)
(* their implementations, the client accessors and the work-item           *)
(* formatter.  The program keeps no state between invocations; the state   *)
(* of the model is the process environment plus the observable record of   *)
(* the last invocation: the tool, its arguments, the backing calls it      *)
(* issued with their outcomes, and the way the tool function ended.        *)
(***************************************************************************)
EXTENDS Integers, Sequences, FiniteSets, TLC

VARIABLES env, tool, args, calls, out, inv

vars == <<env, tool, args, calls, out, inv>>

(***************************************************************************)
(* Bounds                                                                  *)
(***************************************************************************)
MaxId == 2
MaxBatch == 3

(***************************************************************************)
(* Python values.  Every value is tagged with its shape so that the        *)
(* shape probes of the code (hasattr, isinstance, truthiness) can be       *)
(* modelled.                                                               *)
(***************************************************************************)
NoneV == [kind |-> "none"]
S(s) == [kind |-> "str", v |-> s]
I(n) == [kind |-> "int", n |-> n]
F(n) == [kind |-> "float", n |-> n]
B(b) == [kind |-> "bool", b |-> b]
Obj(a) == [kind |-> "obj", attrs |-> a]
Dict(d) == [kind |-> "dict", d |-> d]
L(items) == [kind |-> "list", items |-> items]

\* bool(v)
Truthy(v) ==
    CASE v.kind = "none" -> FALSE
      [] v.kind = "str" -> v.v # ""
      [] v.kind = "int" -> v.n # 0
      [] v.kind = "float" -> v.n # 0
      [] v.kind = "bool" -> v.b
      [] v.kind = "dict" -> DOMAIN v.d # {}
      [] v.kind = "list" -> Len(v.items) > 0
      [] OTHER -> TRUE

\* repr of a dict with the person keys, in insertion order
DictRepr(d) ==
    LET dn == IF "displayName" \in DOMAIN d
              THEN "'displayName': '" \o d["displayName"].v \o "'" ELSE ""
        un == IF "uniqueName" \in DOMAIN d
              THEN "'uniqueName': '" \o d["uniqueName"].v \o "'" ELSE ""
        sep == IF dn # "" /\ un # "" THEN ", " ELSE ""
    IN "{" \o dn \o sep \o un \o "}"

\* str(v), as an f-string renders it
Str(v) ==
    CASE v.kind = "none" -> "None"
      [] v.kind = "str" -> v.v
      [] v.kind = "int" -> ToString(v.n)
      [] v.kind = "float" -> ToString(v.n) \o ".0"
      [] v.kind = "bool" -> IF v.b THEN "True" ELSE "False"
      [] v.kind = "dict" -> DictRepr(v.d)
      [] OTHER -> "<object>"

\* hasattr(v, name)
HasAttr(v, name) == v.kind = "obj" /\ name \in DOMAIN v.attrs

\* isinstance(v, dict)
IsDict(v) == v.kind = "dict"

\* mapping.get(key, default)
Get(m, key, default) == IF key \in DOMAIN m THEN m[key] ELSE default

\* sep.join(seq)
RECURSIVE Join(_, _)
Join(seq, sep) ==
    IF Len(seq) = 0 THEN ""
    ELSE IF Len(seq) = 1 THEN seq[1]
    ELSE seq[1] \o sep \o Join(Tail(seq), sep)

\* sub in s
Contains(s, sub) ==
    \E i \in 1..(Len(s) - Len(sub) + 1) : SubSeq(s, i, i + Len(sub) - 1) = sub

\* the ways a function ends
Ret(s) == [kind |-> "return", value |-> s]
Raise(type, msg) == [kind |-> "raise", type |-> type, msg |-> msg]

\* the outcome of a backing API call: it raises, or it returns a value
Fail(msg) == [kind |-> "fail", msg |-> msg]
Ok(v) == [kind |-> "ok", v |-> v]

\* the exception a failing backing call raises: not an AzureDevOpsClientError
ServiceError(msg) == Raise("AzureDevOpsServiceError", msg)

\* what an invocation did: the backing calls in order, and how it ended
Done(cs, o) == [calls |-> cs, out |-> o]

\* cond ? seq : empty
When(cond, seq) == IF cond THEN seq ELSE <<>>

(***************************************************************************)
(* features/work_items/formatting.py.  A work item is a record with id,    *)
(* rev, fields (a mapping from reference name to value; None and the empty *)
(* mapping behave alike under "work_item.fields or {}"), relations and     *)
(* _links.                                                                 *)
(***************************************************************************)
_format_header(work_item, fields) ==
    LET title == Get(fields, "System.Title", S("Untitled"))
        item_type == Get(fields, "System.WorkItemType", S("Unknown"))
        state == Get(fields, "System.State", S("Unknown"))
        project == Get(fields, "System.TeamProject", S("Unknown"))
        links == work_item._links
    IN  << "# Work Item " \o Str(work_item.id) \o ": " \o Str(title),
           "Type: " \o Str(item_type),
           "State: " \o Str(state) >>
        \o When("rev" \in DOMAIN work_item,
                << "Revision: " \o Str(work_item.rev) >>)
        \o << "Project: " \o Str(project) >>
        \o When(Truthy(links) /\ HasAttr(links, "html")
                    /\ HasAttr(links.attrs.html, "href"),
                << "Web URL: " \o Str(links.attrs.html.attrs.href) >>)

_format_description_sections(fields) ==
    When("System.Description" \in DOMAIN fields,
         << "\n## Description", Str(fields["System.Description"]) >>)
    \o When("Microsoft.VSTS.Common.AcceptanceCriteria" \in DOMAIN fields,
         << "\n## Acceptance Criteria",
            Str(fields["Microsoft.VSTS.Common.AcceptanceCriteria"]) >>)
    \o When("Microsoft.VSTS.TCM.ReproSteps" \in DOMAIN fields,
         << "\n## Repro Steps", Str(fields["Microsoft.VSTS.TCM.ReproSteps"]) >>)
    \o When("Microsoft.VSTS.TCM.SystemInfo" \in DOMAIN fields,
         << "\n## System Information",
            Str(fields["Microsoft.VSTS.TCM.SystemInfo"]) >>)

\* the branch taken for System.AssignedTo
AssignedToLine(assigned_to) ==
    IF HasAttr(assigned_to, "display_name") /\ HasAttr(assigned_to, "unique_name")
    THEN "Assigned To: " \o Str(assigned_to.attrs.display_name)
         \o " (" \o Str(assigned_to.attrs.unique_name) \o ")"
    ELSE IF IsDict(assigned_to)
    THEN "Assigned To: " \o Str(Get(assigned_to.d, "displayName", S("")))
         \o " (" \o Str(Get(assigned_to.d, "uniqueName", S(""))) \o ")"
    ELSE "Assigned To: " \o Str(assigned_to)

\* the branch shared by created-by, activated-by, resolved-by and changed-by
PersonName(person) ==
    IF HasAttr(person, "display_name")
    THEN Str(person.attrs.display_name)
    ELSE IF IsDict(person) /\ "displayName" \in DOMAIN person.d
    THEN Str(person.d["displayName"])
    ELSE Str(person)

_format_people_info(fields) ==
    When("System.AssignedTo" \in DOMAIN fields,
         << AssignedToLine(fields["System.AssignedTo"]) >>)
    \o When("System.CreatedBy" \in DOMAIN fields,
         << "Created By: " \o PersonName(fields["System.CreatedBy"]) >>)
    \o When("Microsoft.VSTS.Common.ActivatedBy" \in DOMAIN fields,
         << "Activated By: "
            \o PersonName(fields["Microsoft.VSTS.Common.ActivatedBy"]) >>)
    \o When("Microsoft.VSTS.Common.ResolvedBy" \in DOMAIN fields,
         << "Resolved By: "
            \o PersonName(fields["Microsoft.VSTS.Common.ResolvedBy"]) >>)

_format_dates(fields) ==
    When("System.CreatedDate" \in DOMAIN fields,
         << "Created Date: " \o Str(fields["System.CreatedDate"]) >>)
    \o When("Microsoft.VSTS.Common.StateChangeDate" \in DOMAIN fields,
         << "State Changed: "
            \o Str(fields["Microsoft.VSTS.Common.StateChangeDate"]) >>)
    \o When("Microsoft.VSTS.Common.ActivatedDate" \in DOMAIN fields,
         << "Activated Date: "
            \o Str(fields["Microsoft.VSTS.Common.ActivatedDate"]) >>)
    \o When("Microsoft.VSTS.Common.ResolvedDate" \in DOMAIN fields,
         << "Resolved Date: "
            \o Str(fields["Microsoft.VSTS.Common.ResolvedDate"]) >>)
    \o When("System.ChangedDate" \in DOMAIN fields,
         IF "System.ChangedBy" \in DOMAIN fields
         THEN << "Last updated " \o Str(fields["System.ChangedDate"])
                 \o " by " \o PersonName(fields["System.ChangedBy"]) >>
         ELSE << "Last updated: " \o Str(fields["System.ChangedDate"]) >>)

_format_categorization(fields) ==
    When("System.IterationPath" \in DOMAIN fields,
         << "Iteration: " \o Str(fields["System.IterationPath"]) >>)
    \o When("System.AreaPath" \in DOMAIN fields,
         << "Area: " \o Str(fields["System.AreaPath"]) >>)
    \o When("Microsoft.VSTS.Common.ValueArea" \in DOMAIN fields,
         << "Value Area: " \o Str(fields["Microsoft.VSTS.Common.ValueArea"]) >>)
    \o When("Microsoft.VSTS.Common.Risk" \in DOMAIN fields,
         << "Risk: " \o Str(fields["Microsoft.VSTS.Common.Risk"]) >>)
    \o When("Microsoft.VSTS.Common.Severity" \in DOMAIN fields,
         << "Severity: " \o Str(fields["Microsoft.VSTS.Common.Severity"]) >>)
    \o When("System.Tags" \in DOMAIN fields /\ Truthy(fields["System.Tags"]),
         << "Tags: " \o Str(fields["System.Tags"]) >>)

_format_metrics(fields) ==
    When("Microsoft.VSTS.Common.Priority" \in DOMAIN fields,
         << "Priority: " \o Str(fields["Microsoft.VSTS.Common.Priority"]) >>)
    \o When("Microsoft.VSTS.Scheduling.Effort" \in DOMAIN fields,
         << "Effort: " \o Str(fields["Microsoft.VSTS.Scheduling.Effort"]) >>)
    \o When("Microsoft.VSTS.Scheduling.StoryPoints" \in DOMAIN fields,
         << "Story Points: "
            \o Str(fields["Microsoft.VSTS.Scheduling.StoryPoints"]) >>)

\* the lines of one relation
RelationLines(link) ==
    << "- " \o Str(link.rel) \o " URL: " \o Str(link.url) >>
    \o When("attributes" \in DOMAIN link /\ Truthy(link.attributes),
            << "  :: Attributes: " \o Str(link.attributes) >>)

RECURSIVE RelationsLines(_)
RelationsLines(relations) ==
    IF Len(relations) = 0 THEN <<>>
    ELSE RelationLines(Head(relations)) \o RelationsLines(Tail(relations))

\* the "## Related Items" heading goes to links_section, which is dropped
_format_related_items(work_item) ==
    When("relations" \in DOMAIN work_item /\ Len(work_item.relations) > 0,
         RelationsLines(work_item.relations))

\* mutant: the reason is rendered only when its value is truthy
_format_state_info_TruthyOnly(fields) ==
    When("System.Reason" \in DOMAIN fields /\ Truthy(fields["System.Reason"]),
         << "Reason: " \o Str(fields["System.Reason"]) >>)

_format_state_info(fields) ==
    When("System.Reason" \in DOMAIN fields,
         << "Reason: " \o Str(fields["System.Reason"]) >>)

_format_scheduling_info(fields) ==
    When("Microsoft.VSTS.Scheduling.StartDate" \in DOMAIN fields,
         << "Start Date: "
            \o Str(fields["Microsoft.VSTS.Scheduling.StartDate"]) >>)
    \o When("Microsoft.VSTS.Scheduling.FinishDate" \in DOMAIN fields,
         << "Finish Date: "
            \o Str(fields["Microsoft.VSTS.Scheduling.FinishDate"]) >>)
    \o When("Microsoft.VSTS.Scheduling.RemainingWork" \in DOMAIN fields,
         << "Remaining Work: "
            \o Str(fields["Microsoft.VSTS.Scheduling.RemainingWork"])
            \o " hours" >>)
    \o When("Microsoft.VSTS.Scheduling.CompletedWork" \in DOMAIN fields,
         << "Completed Work: "
            \o Str(fields["Microsoft.VSTS.Scheduling.CompletedWork"])
            \o " hours" >>)

\* mutant: the column state is rendered only when the done flag is truthy
_format_board_info_DoneOnly(fields) ==
    When("System.BoardColumn" \in DOMAIN fields,
         << "Board Column: " \o Str(fields["System.BoardColumn"]) >>
         \o When("System.BoardColumnDone" \in DOMAIN fields
                     /\ Truthy(fields["System.BoardColumnDone"]),
                 << "Column State: Done" >>))

_format_board_info(fields) ==
    When("System.BoardColumn" \in DOMAIN fields,
         << "Board Column: " \o Str(fields["System.BoardColumn"]) >>
         \o When("System.BoardColumnDone" \in DOMAIN fields,
                 << "Column State: "
                    \o (IF Truthy(fields["System.BoardColumnDone"])
                        THEN "Done" ELSE "Not Done") >>))

_format_build_info(fields) ==
    When("Microsoft.VSTS.Build.FoundIn" \in DOMAIN fields,
         << "Found In: " \o Str(fields["Microsoft.VSTS.Build.FoundIn"]) >>)
    \o When("Microsoft.VSTS.Build.IntegrationBuild" \in DOMAIN fields,
         << "Integration Build: "
            \o Str(fields["Microsoft.VSTS.Build.IntegrationBuild"]) >>)

\* the list "details" before it is joined
WorkItemDetails(work_item) ==
    LET fields == work_item.fields
    IN  _format_header(work_item, fields)
        \o _format_description_sections(fields)
        \o << "\n## Additional Details" >>
        \o _format_people_info(fields)
        \o _format_dates(fields)
        \o _format_state_info(fields)
        \o _format_board_info(fields)
        \o _format_scheduling_info(fields)
        \o _format_categorization(fields)
        \o _format_metrics(fields)
        \o _format_build_info(fields)
        \o _format_related_items(work_item)

format_work_item(work_item) == Join(WorkItemDetails(work_item), "\n")

(***************************************************************************)
(* utils/azure_client.py and features/work_items/common.py.  The           *)
(* environment e holds the two credential values and the set of clients    *)
(* whose fabrication yields nothing.                                       *)
(***************************************************************************)
get_credentials(e) == << e.pat, e.url >>

\* mutant: only the token is tested
get_connection_PatOnly(e) ==
    LET pat == get_credentials(e)[1]
        organization_url == get_credentials(e)[2]
    IN  IF ~Truthy(pat)
        THEN NoneV
        ELSE Obj([base_url |-> organization_url,
                  creds |-> Obj([username |-> S(""), password |-> pat])])

get_connection(e) ==
    LET pat == get_credentials(e)[1]
        organization_url == get_credentials(e)[2]
    IN  IF ~Truthy(pat) \/ ~Truthy(organization_url)
        THEN NoneV
        ELSE Obj([base_url |-> organization_url,
                  creds |-> Obj([username |-> S(""), password |-> pat])])

NoCredentialsMsg ==
    "Azure DevOps PAT or organization URL not found in environment variables."

get_work_item_client(e) ==
    LET connection == get_connection(e)
    IN  IF ~Truthy(connection)
        THEN Raise("AzureDevOpsClientError", NoCredentialsMsg)
        ELSE IF "wit" \in e.nofab
        THEN Raise("AzureDevOpsClientError",
                   "Failed to get work item tracking client.")
        ELSE Ret("wit_client")

get_core_client(e) ==
    LET connection == get_connection(e)
    IN  IF ~Truthy(connection)
        THEN Raise("Exception", NoCredentialsMsg)
        ELSE IF "core" \in e.nofab
        THEN Raise("Exception", "Failed to get Core client.")
        ELSE Ret("core_client")

get_work_item_tracking_process_client(e) ==
    LET connection == get_connection(e)
    IN  IF ~Truthy(connection)
        THEN Raise("Exception", NoCredentialsMsg)
        ELSE IF "process" \in e.nofab
        THEN Raise("Exception",
                   "Failed to get Work Item Tracking Process client.")
        ELSE Ret("process_client")

\* the registration-level handler "except AzureDevOpsClientError"
CatchClientError(d) ==
    IF d.out.kind = "raise" /\ d.out.type = "AzureDevOpsClientError"
    THEN Done(d.calls, Ret("Error: " \o d.out.msg))
    ELSE d

\* a following "except Exception" with its own prefix
CatchException(d, prefix) ==
    IF d.out.kind = "raise"
    THEN Done(d.calls, Ret(prefix \o d.out.msg))
    ELSE d

\* the formatted renderings of the truthy entries of a batch, in order
RECURSIVE FormatNonNull(_)
FormatNonNull(work_items) ==
    IF Len(work_items) = 0 THEN <<>>
    ELSE When(Truthy(Head(work_items)), << format_work_item(Head(work_items)) >>)
         \o FormatNonNull(Tail(work_items))

\* str(list of int)
RECURSIVE IntsRepr(_)
IntsRepr(ids) ==
    IF Len(ids) = 0 THEN ""
    ELSE IF Len(ids) = 1 THEN ToString(ids[1])
    ELSE ToString(ids[1]) \o ", " \o IntsRepr(Tail(ids))

(***************************************************************************)
(* features/work_items/tools/query.py                                      *)
(***************************************************************************)
\* mutant: no early return on an empty query result
_query_work_items_impl_NoEarlyReturn(query, top, wiqlResp, batchResp) ==
    LET c1 == [op |-> "query_by_wiql", query |-> query, top |-> top,
               resp |-> wiqlResp]
        work_item_ids == IF wiqlResp.kind = "ok" /\ wiqlResp.v.kind = "list"
                         THEN wiqlResp.v.items ELSE <<>>
        c2 == [op |-> "get_work_items", ids |-> work_item_ids,
               expand |-> "all", error_policy |-> "omit", resp |-> batchResp]
    IN  IF wiqlResp.kind = "fail"
        THEN Done(<< c1 >>, ServiceError(wiqlResp.msg))
        ELSE IF batchResp.kind = "fail"
        THEN Done(<< c1, c2 >>, ServiceError(batchResp.msg))
        ELSE IF batchResp.v.kind = "none"
        THEN Done(<< c1, c2 >>,
                  Raise("TypeError", "'NoneType' object is not iterable"))
        ELSE Done(<< c1, c2 >>,
                  Ret(Join(FormatNonNull(batchResp.v.items), "\n\n")))

\* mutant: a batch answer without a work item is reported with a message
_query_work_items_impl_EmptyMessage(query, top, wiqlResp, batchResp) ==
    LET c1 == [op |-> "query_by_wiql", query |-> query, top |-> top,
               resp |-> wiqlResp]
    IN  IF wiqlResp.kind = "fail"
        THEN Done(<< c1 >>, ServiceError(wiqlResp.msg))
        ELSE IF ~Truthy(wiqlResp.v)
        THEN Done(<< c1 >>, Ret("No work items found matching the query."))
        ELSE
          LET work_item_ids == wiqlResp.v.items
              c2 == [op |-> "get_work_items", ids |-> work_item_ids,
                     expand |-> "all", error_policy |-> "omit",
                     resp |-> batchResp]
          IN  IF batchResp.kind = "fail"
              THEN Done(<< c1, c2 >>, ServiceError(batchResp.msg))
              ELSE IF batchResp.v.kind = "none"
              THEN Done(<< c1, c2 >>,
                        Raise("TypeError", "'NoneType' object is not iterable"))
              ELSE IF Len(FormatNonNull(batchResp.v.items)) = 0
              THEN Done(<< c1, c2 >>,
                        Ret("No valid work items found with the provided IDs."))
              ELSE Done(<< c1, c2 >>,
                        Ret(Join(FormatNonNull(batchResp.v.items), "\n\n")))

_query_work_items_impl(query, top, wiqlResp, batchResp) ==
    LET c1 == [op |-> "query_by_wiql", query |-> query, top |-> top,
               resp |-> wiqlResp]
    IN  IF wiqlResp.kind = "fail"
        THEN Done(<< c1 >>, ServiceError(wiqlResp.msg))
        ELSE IF ~Truthy(wiqlResp.v)
        THEN Done(<< c1 >>, Ret("No work items found matching the query."))
        ELSE
          LET work_item_ids == wiqlResp.v.items
              c2 == [op |-> "get_work_items", ids |-> work_item_ids,
                     expand |-> "all", error_policy |-> "omit",
                     resp |-> batchResp]
          IN  IF batchResp.kind = "fail"
              THEN Done(<< c1, c2 >>, ServiceError(batchResp.msg))
              ELSE IF batchResp.v.kind = "none"
              THEN Done(<< c1, c2 >>,
                        Raise("TypeError", "'NoneType' object is not iterable"))
              ELSE Done(<< c1, c2 >>,
                        Ret(Join(FormatNonNull(batchResp.v.items), "\n\n")))

query_work_items(e, query, top, wiqlResp, batchResp) ==
    LET wit_client == get_work_item_client(e)
    IN  IF wit_client.kind = "raise"
        THEN CatchClientError(Done(<<>>, wit_client))
        ELSE CatchClientError(
                 _query_work_items_impl(query,
                                        IF Truthy(top) THEN top ELSE I(30),
                                        wiqlResp, batchResp))

(***************************************************************************)
(* features/work_items/tools/read.py                                       *)
(***************************************************************************)
\* mutant: one null entry makes the whole batch count as not valid
_get_work_item_impl_AnyNull(item_id, getResp, batchResp) ==
    IF item_id.kind = "int"
    THEN LET c == [op |-> "get_work_item", id |-> item_id.n,
                   expand |-> "all", resp |-> getResp]
         IN  IF getResp.kind = "fail"
             THEN Done(<< c >>,
                       Ret("Error retrieving work item " \o Str(item_id)
                           \o ": " \o getResp.msg))
             ELSE Done(<< c >>, Ret(format_work_item(getResp.v)))
    ELSE LET c == [op |-> "get_work_items", ids |-> item_id.items,
                   expand |-> "all", error_policy |-> "omit",
                   resp |-> batchResp]
         IN  IF batchResp.kind = "fail"
             THEN Done(<< c >>,
                       Ret("Error retrieving work items ["
                           \o IntsRepr(item_id.items) \o "]: "
                           \o batchResp.msg))
             ELSE IF ~Truthy(batchResp.v)
             THEN Done(<< c >>, Ret("No work items found."))
             ELSE LET formatted_results == FormatNonNull(batchResp.v.items)
                  IN  IF \E i \in DOMAIN batchResp.v.items :
                             ~Truthy(batchResp.v.items[i])
                      THEN Done(<< c >>,
                           Ret("No valid work items found with the provided IDs."))
                      ELSE Done(<< c >>, Ret(Join(formatted_results, "\n\n")))

\* mutant: an all-null batch is reported with the message of an empty batch
_get_work_item_impl_OneMessage(item_id, getResp, batchResp) ==
    IF item_id.kind = "int"
    THEN LET c == [op |-> "get_work_item", id |-> item_id.n,
                   expand |-> "all", resp |-> getResp]
         IN  IF getResp.kind = "fail"
             THEN Done(<< c >>,
                       Ret("Error retrieving work item " \o Str(item_id)
                           \o ": " \o getResp.msg))
             ELSE Done(<< c >>, Ret(format_work_item(getResp.v)))
    ELSE LET c == [op |-> "get_work_items", ids |-> item_id.items,
                   expand |-> "all", error_policy |-> "omit",
                   resp |-> batchResp]
         IN  IF batchResp.kind = "fail"
             THEN Done(<< c >>,
                       Ret("Error retrieving work items ["
                           \o IntsRepr(item_id.items) \o "]: "
                           \o batchResp.msg))
             ELSE IF ~Truthy(batchResp.v)
             THEN Done(<< c >>, Ret("No work items found."))
             ELSE LET formatted_results == FormatNonNull(batchResp.v.items)
                  IN  IF Len(formatted_results) = 0
                      THEN Done(<< c >>,
                           Ret("No work items found."))
                      ELSE Done(<< c >>, Ret(Join(formatted_results, "\n\n")))

_get_work_item_impl(item_id, getResp, batchResp) ==
    IF item_id.kind = "int"
    THEN LET c == [op |-> "get_work_item", id |-> item_id.n,
                   expand |-> "all", resp |-> getResp]
         IN  IF getResp.kind = "fail"
             THEN Done(<< c >>,
                       Ret("Error retrieving work item " \o Str(item_id)
                           \o ": " \o getResp.msg))
             ELSE Done(<< c >>, Ret(format_work_item(getResp.v)))
    ELSE LET c == [op |-> "get_work_items", ids |-> item_id.items,
                   expand |-> "all", error_policy |-> "omit",
                   resp |-> batchResp]
         IN  IF batchResp.kind = "fail"
             THEN Done(<< c >>,
                       Ret("Error retrieving work items ["
                           \o IntsRepr(item_id.items) \o "]: "
                           \o batchResp.msg))
             ELSE IF ~Truthy(batchResp.v)
             THEN Done(<< c >>, Ret("No work items found."))
             ELSE LET formatted_results == FormatNonNull(batchResp.v.items)
                  IN  IF Len(formatted_results) = 0
                      THEN Done(<< c >>,
                           Ret("No valid work items found with the provided IDs."))
                      ELSE Done(<< c >>, Ret(Join(formatted_results, "\n\n")))

get_work_item(e, id, getResp, batchResp) ==
    LET wit_client == get_work_item_client(e)
    IN  IF wit_client.kind = "raise"
        THEN CatchClientError(Done(<<>>, wit_client))
        ELSE CatchClientError(_get_work_item_impl(id, getResp, batchResp))

(***************************************************************************)
(* features/work_items/tools/comments.py                                   *)
(***************************************************************************)
_format_comment(comment) ==
    LET created_date ==
            IF HasAttr(comment, "created_date")
               /\ Truthy(comment.attrs.created_date)
            THEN " on " \o Str(comment.attrs.created_date) ELSE ""
        author ==
            IF HasAttr(comment, "created_by") /\ Truthy(comment.attrs.created_by)
               /\ HasAttr(comment.attrs.created_by, "display_name")
               /\ Truthy(comment.attrs.created_by.attrs.display_name)
            THEN Str(comment.attrs.created_by.attrs.display_name)
            ELSE "Unknown"
        text ==
            IF HasAttr(comment, "text") /\ Truthy(comment.attrs.text)
            THEN Str(comment.attrs.text) ELSE "No text"
    IN  "## Comment by " \o author \o created_date \o ":\n" \o text

\* the lookup call and the project it yields (None when it cannot be told)
_get_project_for_work_item(item_id, lookupResp) ==
    LET c == [op |-> "get_work_item", id |-> item_id, resp |-> lookupResp]
    IN  IF lookupResp.kind = "fail"
        THEN [calls |-> << c >>, project |-> NoneV]
        ELSE IF Truthy(lookupResp.v) /\ DOMAIN lookupResp.v.fields # {}
        THEN [calls |-> << c >>,
              project |-> Get(lookupResp.v.fields, "System.TeamProject", NoneV)]
        ELSE [calls |-> << c >>, project |-> NoneV]

RECURSIVE FormatComments(_)
FormatComments(comments) ==
    IF Len(comments) = 0 THEN <<>>
    ELSE << _format_comment(Head(comments)) >> \o FormatComments(Tail(comments))

\* mutant: the fetch goes ahead with whatever project the lookup gave
_get_work_item_comments_impl_NoProjectCheck(item_id, project, lookupResp, commentsResp) ==
    LET lookup == IF ~Truthy(project)
                  THEN _get_project_for_work_item(item_id, lookupResp)
                  ELSE [calls |-> <<>>, project |-> project]
    IN  IF FALSE
        THEN Done(lookup.calls,
                  Ret("Error retrieving work item " \o ToString(item_id)
                      \o " to determine project"))
        ELSE
          LET c == [op |-> "get_comments", project |-> lookup.project,
                    work_item_id |-> item_id, resp |-> commentsResp]
          IN  IF commentsResp.kind = "fail"
              THEN Done(lookup.calls \o << c >>, ServiceError(commentsResp.msg))
              ELSE LET formatted_comments == FormatComments(commentsResp.v.items)
                   IN  IF Len(formatted_comments) = 0
                       THEN Done(lookup.calls \o << c >>,
                                 Ret("No comments found for this work item."))
                       ELSE Done(lookup.calls \o << c >>,
                                 Ret(Join(formatted_comments, "\n\n")))

_get_work_item_comments_impl(item_id, project, lookupResp, commentsResp) ==
    LET lookup == IF ~Truthy(project)
                  THEN _get_project_for_work_item(item_id, lookupResp)
                  ELSE [calls |-> <<>>, project |-> project]
    IN  IF ~Truthy(lookup.project)
        THEN Done(lookup.calls,
                  Ret("Error retrieving work item " \o ToString(item_id)
                      \o " to determine project"))
        ELSE
          LET c == [op |-> "get_comments", project |-> lookup.project,
                    work_item_id |-> item_id, resp |-> commentsResp]
          IN  IF commentsResp.kind = "fail"
              THEN Done(lookup.calls \o << c >>, ServiceError(commentsResp.msg))
              ELSE LET formatted_comments == FormatComments(commentsResp.v.items)
                   IN  IF Len(formatted_comments) = 0
                       THEN Done(lookup.calls \o << c >>,
                                 Ret("No comments found for this work item."))
                       ELSE Done(lookup.calls \o << c >>,
                                 Ret(Join(formatted_comments, "\n\n")))

\* mutant: the comment is created with whatever project the lookup gave
_add_work_item_comment_impl_NoProjectCheck(item_id, text, project, lookupResp, addResp) ==
    LET lookup == IF ~Truthy(project)
                  THEN _get_project_for_work_item(item_id, lookupResp)
                  ELSE [calls |-> <<>>, project |-> project]
    IN  IF FALSE
        THEN Done(lookup.calls,
                  Ret("Error retrieving work item " \o ToString(item_id)
                      \o " to determine project"))
        ELSE
          LET c == [op |-> "add_comment", request |-> [text |-> text],
                    project |-> lookup.project, work_item_id |-> item_id,
                    resp |-> addResp]
          IN  IF addResp.kind = "fail"
              THEN Done(lookup.calls \o << c >>, ServiceError(addResp.msg))
              ELSE Done(lookup.calls \o << c >>,
                        Ret("Comment added successfully.\n\n"
                            \o _format_comment(addResp.v)))

_add_work_item_comment_impl(item_id, text, project, lookupResp, addResp) ==
    LET lookup == IF ~Truthy(project)
                  THEN _get_project_for_work_item(item_id, lookupResp)
                  ELSE [calls |-> <<>>, project |-> project]
    IN  IF ~Truthy(lookup.project)
        THEN Done(lookup.calls,
                  Ret("Error retrieving work item " \o ToString(item_id)
                      \o " to determine project"))
        ELSE
          LET c == [op |-> "add_comment", request |-> [text |-> text],
                    project |-> lookup.project, work_item_id |-> item_id,
                    resp |-> addResp]
          IN  IF addResp.kind = "fail"
              THEN Done(lookup.calls \o << c >>, ServiceError(addResp.msg))
              ELSE Done(lookup.calls \o << c >>,
                        Ret("Comment added successfully.\n\n"
                            \o _format_comment(addResp.v)))

get_work_item_comments(e, id, project, lookupResp, commentsResp) ==
    LET wit_client == get_work_item_client(e)
    IN  IF wit_client.kind = "raise"
        THEN CatchClientError(Done(<<>>, wit_client))
        ELSE CatchClientError(
                 _get_work_item_comments_impl(id, project, lookupResp,
                                              commentsResp))

add_work_item_comment(e, id, text, project, lookupResp, addResp) ==
    LET wit_client == get_work_item_client(e)
    IN  IF wit_client.kind = "raise"
        THEN CatchClientError(Done(<<>>, wit_client))
        ELSE CatchClientError(
                 _add_work_item_comment_impl(id, text, project, lookupResp,
                                             addResp))

(***************************************************************************)
(* features/work_items/tools/create.py.  A fields dictionary is a sequence *)
(* of <<name, value>> entries in insertion order.                          *)
(***************************************************************************)
\* s.startswith(prefix)
StartsWith(s, prefix) ==
    Len(s) >= Len(prefix) /\ SubSeq(s, 1, Len(prefix)) = prefix

\* s.rstrip('/')
RECURSIVE RStripSlash(_)
RStripSlash(s) ==
    IF Len(s) > 0 /\ SubSeq(s, Len(s), Len(s)) = "/"
    THEN RStripSlash(SubSeq(s, 1, Len(s) - 1))
    ELSE s

JsonPatchOperation(op, path, value) ==
    [op |-> op, path |-> path, value |-> value]

_build_field_document(fields, operation) ==
    [i \in 1..Len(fields) |->
        JsonPatchOperation(
            operation,
            IF StartsWith(fields[i][1], "/fields/")
            THEN fields[i][1] ELSE "/fields/" \o fields[i][1],
            fields[i][2])]

_get_organization_url(e) ==
    RStripSlash(IF e.url.kind = "none" THEN "" ELSE e.url.v)

_build_link_document(target_id, link_type, org_url) ==
    << JsonPatchOperation(
           "add", "/relations/-",
           [rel |-> link_type,
            url |-> org_url \o "/_apis/wit/workItems/" \o Str(target_id)]) >>

\* mutant: the failure of the link step is not caught
_create_work_item_impl_LinkUncaught(e, fields, project, work_item_type, parent_id, createResp, linkResp) ==
    LET c1 == [op |-> "create_work_item",
               document |-> _build_field_document(fields, "add"),
               project |-> project, type |-> work_item_type,
               resp |-> createResp]
        c2 == [op |-> "update_work_item",
               document |-> _build_link_document(
                                parent_id,
                                "System.LinkTypes.Hierarchy-Reverse",
                                _get_organization_url(e)),
               id |-> createResp.v.id, project |-> project, resp |-> linkResp]
    IN  IF createResp.kind = "fail"
        THEN Done(<< c1 >>, ServiceError(createResp.msg))
        ELSE IF ~Truthy(parent_id)
        THEN Done(<< c1 >>, Ret(format_work_item(createResp.v)))
        ELSE IF linkResp.kind = "fail"
        THEN Done(<< c1, c2 >>, ServiceError(linkResp.msg))
        ELSE Done(<< c1, c2 >>, Ret(format_work_item(linkResp.v)))

\* mutant: the created item is deleted again when the link call raises
_create_work_item_impl_RollBack(e, fields, project, work_item_type, parent_id, createResp, linkResp) ==
    LET document == _build_field_document(fields, "add")
        c1 == [op |-> "create_work_item", document |-> document,
               project |-> project, type |-> work_item_type,
               resp |-> createResp]
    IN  IF createResp.kind = "fail"
        THEN Done(<< c1 >>, ServiceError(createResp.msg))
        ELSE
          LET new_work_item == createResp.v
          IN  IF Truthy(parent_id)
              THEN LET org_url == _get_organization_url(e)
                       link_document ==
                           _build_link_document(
                               parent_id,
                               "System.LinkTypes.Hierarchy-Reverse", org_url)
                       c2 == [op |-> "update_work_item",
                              document |-> link_document,
                              id |-> new_work_item.id, project |-> project,
                              resp |-> linkResp]
                   IN  IF linkResp.kind = "fail"
                       THEN Done(<< c1, c2,
                                    [op |-> "delete_work_item",
                                     id |-> new_work_item.id,
                                     project |-> project,
                                     resp |-> Ok(NoneV)] >>,
                                 Ret("Work item created successfully, but failed to establish "
                                     \o "parent-child relationship: "
                                     \o linkResp.msg \o "\n\n"
                                     \o format_work_item(new_work_item)))
                       ELSE Done(<< c1, c2 >>,
                                 Ret(format_work_item(linkResp.v)))
              ELSE Done(<< c1 >>, Ret(format_work_item(new_work_item)))

\* mutant: the created item is rendered also after a successful link step
_create_work_item_impl_RenderCreated(e, fields, project, work_item_type, parent_id, createResp, linkResp) ==
    LET document == _build_field_document(fields, "add")
        c1 == [op |-> "create_work_item", document |-> document,
               project |-> project, type |-> work_item_type,
               resp |-> createResp]
    IN  IF createResp.kind = "fail"
        THEN Done(<< c1 >>, ServiceError(createResp.msg))
        ELSE
          LET new_work_item == createResp.v
          IN  IF Truthy(parent_id)
              THEN LET c2 == [op |-> "update_work_item",
                              document |->
                                  _build_link_document(
                                      parent_id,
                                      "System.LinkTypes.Hierarchy-Reverse",
                                      _get_organization_url(e)),
                              id |-> new_work_item.id, project |-> project,
                              resp |-> linkResp]
                   IN  IF linkResp.kind = "fail"
                       THEN Done(<< c1, c2 >>,
                                 Ret("Work item created successfully, but failed to establish "
                                     \o "parent-child relationship: "
                                     \o linkResp.msg \o "\n\n"
                                     \o format_work_item(new_work_item)))
                       ELSE Done(<< c1, c2 >>,
                                 Ret(format_work_item(new_work_item)))
              ELSE Done(<< c1 >>, Ret(format_work_item(new_work_item)))

_create_work_item_impl(e, fields, project, work_item_type, parent_id, createResp, linkResp) ==
    LET document == _build_field_document(fields, "add")
        c1 == [op |-> "create_work_item", document |-> document,
               project |-> project, type |-> work_item_type,
               resp |-> createResp]
    IN  IF createResp.kind = "fail"
        THEN Done(<< c1 >>, ServiceError(createResp.msg))
        ELSE
          LET new_work_item == createResp.v
          IN  IF Truthy(parent_id)
              THEN LET org_url == _get_organization_url(e)
                       link_document ==
                           _build_link_document(
                               parent_id,
                               "System.LinkTypes.Hierarchy-Reverse", org_url)
                       c2 == [op |-> "update_work_item",
                              document |-> link_document,
                              id |-> new_work_item.id, project |-> project,
                              resp |-> linkResp]
                   IN  IF linkResp.kind = "fail"
                       THEN Done(<< c1, c2 >>,
                                 Ret("Work item created successfully, but failed to establish "
                                     \o "parent-child relationship: "
                                     \o linkResp.msg \o "\n\n"
                                     \o format_work_item(new_work_item)))
                       ELSE Done(<< c1, c2 >>,
                                 Ret(format_work_item(linkResp.v)))
              ELSE Done(<< c1 >>, Ret(format_work_item(new_work_item)))

_update_work_item_impl(id, fields, project, updateResp) ==
    LET document == _build_field_document(fields, "replace")
        c == [op |-> "update_work_item", document |-> document, id |-> id,
              project |-> project, resp |-> updateResp]
    IN  IF updateResp.kind = "fail"
        THEN Done(<< c >>, ServiceError(updateResp.msg))
        ELSE Done(<< c >>, Ret(format_work_item(updateResp.v)))

_add_link_to_work_item_impl(e, source_id, target_id, link_type, project, updateResp) ==
    LET org_url == _get_organization_url(e)
        link_document == _build_link_document(target_id, link_type, org_url)
        c == [op |-> "update_work_item", document |-> link_document,
              id |-> source_id, project |-> project, resp |-> updateResp]
    IN  IF updateResp.kind = "fail"
        THEN Done(<< c >>, ServiceError(updateResp.msg))
        ELSE Done(<< c >>, Ret(format_work_item(updateResp.v)))

\* mutant: story points and priority of 0 are taken as not supplied
_prepare_create_fields_TruthyNumbers(title, description, state, assigned_to, iteration_path, area_path, story_points, priority, tags) ==
    << << "System.Title", title >> >>
    \o When(Truthy(description), << << "System.Description", description >> >>)
    \o When(Truthy(state), << << "System.State", state >> >>)
    \o When(Truthy(assigned_to), << << "System.AssignedTo", assigned_to >> >>)
    \o When(Truthy(iteration_path),
            << << "System.IterationPath", iteration_path >> >>)
    \o When(Truthy(area_path), << << "System.AreaPath", area_path >> >>)
    \o When(Truthy(story_points),
            << << "Microsoft.VSTS.Scheduling.StoryPoints",
                  S(Str(story_points)) >> >>)
    \o When(Truthy(priority),
            << << "Microsoft.VSTS.Common.Priority", S(Str(priority)) >> >>)
    \o When(Truthy(tags), << << "System.Tags", tags >> >>)

_prepare_create_fields(title, description, state, assigned_to, iteration_path, area_path, story_points, priority, tags) ==
    << << "System.Title", title >> >>
    \o When(Truthy(description), << << "System.Description", description >> >>)
    \o When(Truthy(state), << << "System.State", state >> >>)
    \o When(Truthy(assigned_to), << << "System.AssignedTo", assigned_to >> >>)
    \o When(Truthy(iteration_path),
            << << "System.IterationPath", iteration_path >> >>)
    \o When(Truthy(area_path), << << "System.AreaPath", area_path >> >>)
    \o When(story_points.kind # "none",
            << << "Microsoft.VSTS.Scheduling.StoryPoints",
                  S(Str(story_points)) >> >>)
    \o When(priority.kind # "none",
            << << "Microsoft.VSTS.Common.Priority", S(Str(priority)) >> >>)
    \o When(Truthy(tags), << << "System.Tags", tags >> >>)

\* fields.pop(key, None)
Pop(fields, key) == SelectSeq(fields, LAMBDA kv : kv[1] # key)

create_work_item(e, a, createResp, linkResp) ==
    LET wit_client == get_work_item_client(e)
    IN  IF wit_client.kind = "raise"
        THEN CatchException(CatchClientError(Done(<<>>, wit_client)),
                            "Error creating work item: ")
        ELSE
          LET fields == _prepare_create_fields(
                            a.title, a.description, a.state, a.assigned_to,
                            a.iteration_path, a.area_path, a.story_points,
                            a.priority, a.tags)
          IN  CatchException(
                  CatchClientError(
                      _create_work_item_impl(e, fields, a.project,
                                             a.work_item_type, a.parent_id,
                                             createResp, linkResp)),
                  "Error creating work item: ")

\* mutant: the empty field mapping is not rejected
update_work_item_NoValidation(e, a, updateResp) ==
    LET wit_client == get_work_item_client(e)
        prepared == _prepare_create_fields(
                        IF Truthy(a.title) THEN a.title ELSE S(""),
                        a.description, a.state, a.assigned_to,
                        a.iteration_path, a.area_path, a.story_points,
                        a.priority, a.tags)
        fields == IF ~Truthy(a.title)
                  THEN Pop(prepared, "System.Title") ELSE prepared
    IN  IF wit_client.kind = "raise"
        THEN CatchException(CatchClientError(Done(<<>>, wit_client)),
                            "Error updating work item: ")
        ELSE CatchException(
                 CatchClientError(
                     _update_work_item_impl(a.id, fields, a.project,
                                            updateResp)),
                 "Error updating work item: ")

update_work_item(e, a, updateResp) ==
    LET wit_client == get_work_item_client(e)
    IN  IF wit_client.kind = "raise"
        THEN CatchException(CatchClientError(Done(<<>>, wit_client)),
                            "Error updating work item: ")
        ELSE
          LET prepared == _prepare_create_fields(
                              IF Truthy(a.title) THEN a.title ELSE S(""),
                              a.description, a.state, a.assigned_to,
                              a.iteration_path, a.area_path, a.story_points,
                              a.priority, a.tags)
              fields == IF ~Truthy(a.title)
                        THEN Pop(prepared, "System.Title") ELSE prepared
          IN  IF Len(fields) = 0
              THEN Done(<<>>,
                        Ret("Error: At least one field must be specified for update"))
              ELSE CatchException(
                       CatchClientError(
                           _update_work_item_impl(a.id, fields, a.project,
                                                  updateResp)),
                       "Error updating work item: ")

\* mutant: the patch is put on the parent and points at the child
add_parent_child_link_Swapped(e, parent_id, child_id, project, updateResp) ==
    LET wit_client == get_work_item_client(e)
    IN  IF wit_client.kind = "raise"
        THEN CatchException(CatchClientError(Done(<<>>, wit_client)),
                            "Error creating parent-child link: ")
        ELSE CatchException(
                 CatchClientError(
                     _add_link_to_work_item_impl(
                         e, parent_id.n, I(child_id),
                         "System.LinkTypes.Hierarchy-Reverse", project,
                         updateResp)),
                 "Error creating parent-child link: ")

add_parent_child_link(e, parent_id, child_id, project, updateResp) ==
    LET wit_client == get_work_item_client(e)
    IN  IF wit_client.kind = "raise"
        THEN CatchException(CatchClientError(Done(<<>>, wit_client)),
                            "Error creating parent-child link: ")
        ELSE CatchException(
                 CatchClientError(
                     _add_link_to_work_item_impl(
                         e, child_id, parent_id,
                         "System.LinkTypes.Hierarchy-Reverse", project,
                         updateResp)),
                 "Error creating parent-child link: ")

(***************************************************************************)
(* features/work_items/tools/types.py and process.py                       *)
(***************************************************************************)
\* getattr(o, name, default)
GetAttr(o, name, default) == IF HasAttr(o, name) THEN o.attrs[name] ELSE default

\* ["----"] * n
RECURSIVE Dashes(_)
Dashes(n) == IF n = 0 THEN <<>> ELSE << "----" >> \o Dashes(n - 1)

_format_table(headers, rows) ==
    Join(<< "| " \o Join(headers, " | ") \o " |",
            "| " \o Join(Dashes(Len(headers)), " | ") \o " |" >> \o rows,
         "\n")

\* one line of the "## States" section
StateLine(state) ==
    "- " \o Str(state.attrs.name) \o " (Category: " \o Str(state.attrs.category)
    \o ", Color: " \o Str(state.attrs.color) \o ")"
    \o (IF GetAttr(state, "order", NoneV).kind # "none"
        THEN ", Order: " \o Str(state.attrs.order) ELSE "")

RECURSIVE StateLines(_)
StateLines(states) ==
    IF Len(states) = 0 THEN <<>>
    ELSE << StateLine(Head(states)) >> \o StateLines(Tail(states))

_format_work_item_type(wit) ==
    LET description == GetAttr(wit, "description", NoneV)
        color == GetAttr(wit, "color", NoneV)
        icon == GetAttr(wit, "icon", NoneV)
        reference_name == GetAttr(wit, "reference_name", NoneV)
        is_disabled == GetAttr(wit, "is_disabled", NoneV)
        states == GetAttr(wit, "states", NoneV)
    IN  Join(<< "# Work Item Type: " \o Str(wit.attrs.name) >>
             \o When(Truthy(description),
                     << "\nDescription: " \o Str(description) >>)
             \o When(Truthy(color), << "Color: " \o Str(color) >>)
             \o When(Truthy(icon), << "Icon: " \o Str(icon) >>)
             \o When(Truthy(reference_name),
                     << "Reference_name: " \o Str(reference_name) >>)
             \o When(is_disabled.kind # "none",
                     << "Is Disabled: " \o Str(is_disabled) >>)
             \o When(Truthy(states),
                     << "\n## States" >> \o StateLines(states.items)),
             "\n")

\* a row of the work item types table
TypeRow(wit) ==
    "| " \o Str(wit.attrs.name) \o " | "
    \o Str(GetAttr(wit, "reference_name", S("N/A"))) \o " | "
    \o Str(GetAttr(wit, "description", S("N/A"))) \o " |"

RECURSIVE TypeRows(_)
TypeRows(wits) ==
    IF Len(wits) = 0 THEN <<>>
    ELSE << TypeRow(Head(wits)) >> \o TypeRows(Tail(wits))

_get_work_item_types_impl(project, typesResp) ==
    LET c == [op |-> "get_work_item_types", project |-> project,
              resp |-> typesResp]
    IN  IF typesResp.kind = "fail"
        THEN Done(<< c >>, ServiceError(typesResp.msg))
        ELSE IF ~Truthy(typesResp.v)
        THEN Done(<< c >>,
                  Ret("No work item types found in project " \o project \o "."))
        ELSE Done(<< c >>,
                  Ret("# Work Item Types in Project: " \o project \o "\n\n"
                      \o _format_table(<< "Name", "Reference Name", "Description" >>,
                                       TypeRows(typesResp.v.items))))

_get_work_item_type_impl(project, type_name, typeResp) ==
    LET c == [op |-> "get_work_item_type", project |-> project,
              type |-> type_name, resp |-> typeResp]
    IN  IF typeResp.kind = "fail"
        THEN Done(<< c >>, ServiceError(typeResp.msg))
        ELSE IF ~Truthy(typeResp.v)
        THEN Done(<< c >>,
                  Ret("Work item type '" \o type_name
                      \o "' not found in project " \o project \o "."))
        ELSE Done(<< c >>, Ret(_format_work_item_type(typeResp.v)))

\* capabilities.get("processTemplate", {}).get(key)
ProcessTemplateValue(project_details, key) ==
    Get(Get(project_details.attrs.capabilities.d, "processTemplate", Dict(<<>>)).d,
        key, NoneV)

\* a row of the fields table
FieldRow(field) ==
    "| " \o Str(field.attrs.name) \o " | " \o Str(field.attrs.reference_name)
    \o " | " \o Str(GetAttr(field, "type", S("N/A"))) \o " | "
    \o (IF Truthy(GetAttr(field, "required", B(FALSE))) THEN "Yes" ELSE "No")
    \o " | "
    \o (IF Truthy(GetAttr(field, "read_only", B(FALSE))) THEN "Yes" ELSE "No")
    \o " | "

RECURSIVE FieldRows(_)
FieldRows(fields) ==
    IF Len(fields) = 0 THEN <<>>
    ELSE << FieldRow(Head(fields)) >> \o FieldRows(Tail(fields))

_get_work_item_type_fields_impl(e, project, type_name, typeResp, projectResp, fieldsResp) ==
    LET prefix == "Error retrieving fields for work item type '" \o type_name
                  \o "' in project '" \o project \o "': "
        c1 == [op |-> "get_work_item_type", project |-> project,
               type |-> type_name, resp |-> typeResp]
        core_client == get_core_client(e)
        c2 == [op |-> "get_project", project |-> project,
               include_capabilities |-> TRUE, resp |-> projectResp]
        process_client == get_work_item_tracking_process_client(e)
    IN  IF typeResp.kind = "fail"
        THEN Done(<< c1 >>, Ret(prefix \o typeResp.msg))
        ELSE IF ~Truthy(typeResp.v)
        THEN Done(<< c1 >>,
                  Ret("Work item type '" \o type_name
                      \o "' not found in project " \o project \o "."))
        ELSE IF core_client.kind = "raise"
        THEN Done(<< c1 >>, Ret(prefix \o core_client.msg))
        ELSE IF projectResp.kind = "fail"
        THEN Done(<< c1, c2 >>, Ret(prefix \o projectResp.msg))
        ELSE IF ~Truthy(ProcessTemplateValue(projectResp.v, "templateTypeId"))
        THEN Done(<< c1, c2 >>,
                  Ret("Could not determine process ID for project " \o project))
        ELSE IF process_client.kind = "raise"
        THEN Done(<< c1, c2 >>, Ret(prefix \o process_client.msg))
        ELSE
          LET c3 == [op |-> "get_all_work_item_type_fields",
                     process_id |->
                         ProcessTemplateValue(projectResp.v, "templateTypeId"),
                     wit_ref_name |-> typeResp.v.attrs.reference_name,
                     resp |-> fieldsResp]
          IN  IF fieldsResp.kind = "fail"
              THEN Done(<< c1, c2, c3 >>, Ret(prefix \o fieldsResp.msg))
              ELSE IF ~Truthy(fieldsResp.v)
              THEN Done(<< c1, c2, c3 >>,
                        Ret("No fields found for work item type '" \o type_name
                            \o "' in project " \o project \o "."))
              ELSE Done(<< c1, c2, c3 >>,
                        Ret("# Fields for Work Item Type: " \o type_name
                            \o "\n\n"
                            \o _format_table(
                                   << "Name", "Reference Name", "Type",
                                      "Required", "Read Only" >>,
                                   FieldRows(fieldsResp.v.items))))

get_work_item_types(e, project, typesResp) ==
    LET wit_client == get_work_item_client(e)
    IN  IF wit_client.kind = "raise"
        THEN CatchClientError(Done(<<>>, wit_client))
        ELSE CatchClientError(_get_work_item_types_impl(project, typesResp))

get_work_item_type(e, project, type_name, typeResp) ==
    LET wit_client == get_work_item_client(e)
    IN  IF wit_client.kind = "raise"
        THEN CatchClientError(Done(<<>>, wit_client))
        ELSE CatchClientError(
                 _get_work_item_type_impl(project, type_name, typeResp))

get_work_item_type_fields(e, project, type_name, typeResp, projectResp, fieldsResp) ==
    LET wit_client == get_work_item_client(e)
    IN  IF wit_client.kind = "raise"
        THEN CatchClientError(Done(<<>>, wit_client))
        ELSE CatchClientError(
                 _get_work_item_type_fields_impl(e, project, type_name,
                                                 typeResp, projectResp,
                                                 fieldsResp))

\* mutant: the process id is rendered whether or not it was found
_get_project_process_id_impl_NoProcessCheck(e, project, projectResp) ==
    LET prefix == "Error retrieving process ID for project '" \o project
                  \o "': "
        core_client == get_core_client(e)
        c == [op |-> "get_project", project |-> project,
              include_capabilities |-> TRUE, resp |-> projectResp]
    IN  IF core_client.kind = "raise"
        THEN Done(<<>>, Ret(prefix \o core_client.msg))
        ELSE IF projectResp.kind = "fail"
        THEN Done(<< c >>, Ret(prefix \o projectResp.msg))
        ELSE Done(<< c >>,
                  Ret(Join(<< "# Process for Project: "
                              \o Str(projectResp.v.attrs.name),
                              "Process Name: "
                              \o Str(ProcessTemplateValue(projectResp.v,
                                                          "templateName")),
                              "Process ID: "
                              \o Str(ProcessTemplateValue(projectResp.v,
                                                          "templateTypeId")) >>,
                           "\n")))

_get_project_process_id_impl(e, project, projectResp) ==
    LET prefix == "Error retrieving process ID for project '" \o project
                  \o "': "
        core_client == get_core_client(e)
        c == [op |-> "get_project", project |-> project,
              include_capabilities |-> TRUE, resp |-> projectResp]
    IN  IF core_client.kind = "raise"
        THEN Done(<<>>, Ret(prefix \o core_client.msg))
        ELSE IF projectResp.kind = "fail"
        THEN Done(<< c >>, Ret(prefix \o projectResp.msg))
        ELSE
          LET process_id == ProcessTemplateValue(projectResp.v, "templateTypeId")
              process_name == ProcessTemplateValue(projectResp.v, "templateName")
          IN  IF ~Truthy(process_id)
              THEN Done(<< c >>,
                        Ret("Could not determine process ID for project "
                            \o project \o "."))
              ELSE Done(<< c >>,
                        Ret(Join(<< "# Process for Project: "
                                    \o Str(projectResp.v.attrs.name),
                                    "Process Name: " \o Str(process_name),
                                    "Process ID: " \o Str(process_id) >>,
                                 "\n")))

get_project_process_id(e, project, projectResp) ==
    CatchException(_get_project_process_id_impl(e, project, projectResp),
                   "Error: ")

(***************************************************************************)
(* features/work_items/tools.py: the basic rendering and the tool that     *)
(* returns it.                                                             *)
(***************************************************************************)
\* mutant: the block carries the revision line of the full rendering
_format_work_item_basic_WithRevision(work_item) ==
    Join(_format_header(work_item, work_item.fields), "\n")

_format_work_item_basic(work_item) ==
    LET fields == work_item.fields
        title == Get(fields, "System.Title", S("Untitled"))
        item_type == Get(fields, "System.WorkItemType", S("Unknown"))
        state == Get(fields, "System.State", S("Unknown"))
        project == Get(fields, "System.TeamProject", S("Unknown"))
        links == work_item._links
        \* a links object with 'self' and without 'html' raises, which is
        \* caught and leaves the URL out
        url_part == IF Truthy(links) /\ HasAttr(links, "self")
                       /\ HasAttr(links, "html")
                       /\ HasAttr(links.attrs.html, "href")
                    THEN "\nWeb URL: " \o Str(links.attrs.html.attrs.href)
                    ELSE ""
    IN  "# Work Item " \o Str(work_item.id) \o ": " \o Str(title)
        \o "\nType: " \o Str(item_type) \o "\nState: " \o Str(state)
        \o "\nProject: " \o Str(project) \o url_part

\* _get_work_item_impl of tools.py with detailed = False
_get_work_item_basic_impl(item_id, getResp) ==
    LET c == [op |-> "get_work_item", id |-> item_id, resp |-> getResp]
    IN  IF getResp.kind = "fail"
        THEN Done(<< c >>,
                  Ret("Error retrieving work item " \o ToString(item_id)
                      \o ": " \o getResp.msg))
        ELSE Done(<< c >>, Ret(_format_work_item_basic(getResp.v)))

get_work_item_basic(e, id, getResp) ==
    LET wit_client == get_work_item_client(e)
    IN  IF wit_client.kind = "raise"
        THEN CatchClientError(Done(<<>>, wit_client))
        ELSE CatchClientError(_get_work_item_basic_impl(id, getResp))

(***************************************************************************)
(* Field-name normalization.  The function is imported by the tests from   *)
(* tools/create.py; it is stated here as the specification words it.       *)
(***************************************************************************)
LowerCase ==
    "A" :> "a" @@ "B" :> "b" @@ "C" :> "c" @@ "D" :> "d" @@ "E" :> "e"
    @@ "F" :> "f" @@ "G" :> "g" @@ "H" :> "h" @@ "I" :> "i" @@ "J" :>
    "j" @@ "K" :> "k" @@ "L" :> "l" @@ "M" :> "m" @@ "N" :> "n" @@ "O"
    :> "o" @@ "P" :> "p" @@ "Q" :> "q" @@ "R" :> "r" @@ "S" :> "s" @@
    "T" :> "t" @@ "U" :> "u" @@ "V" :> "v" @@ "W" :> "w" @@ "X" :> "x"
    @@ "Y" :> "y" @@ "Z" :> "z"

\* the name in lower case and without separators
RECURSIVE NormalizeName(_)
NormalizeName(name) ==
    IF Len(name) = 0 THEN ""
    ELSE LET c == SubSeq(name, 1, 1)
             rest == NormalizeName(SubSeq(name, 2, Len(name)))
         IN  IF c \in {"_", "-", " "} THEN rest
             ELSE IF c \in DOMAIN LowerCase THEN LowerCase[c] \o rest
             ELSE c \o rest

\* the known short names and their reference names
ShortNames ==
    "title" :> "System.Title"
    @@ "description" :> "System.Description"
    @@ "assignedto" :> "System.AssignedTo"
    @@ "iterationpath" :> "System.IterationPath"
    @@ "areapath" :> "System.AreaPath"
    @@ "storypoints" :> "Microsoft.VSTS.Scheduling.StoryPoints"
    @@ "priority" :> "Microsoft.VSTS.Common.Priority"

\* mutant: a name that is not known is put under System
_ensure_system_prefix_PrefixUnknown(field_name) ==
    IF Contains(field_name, ".") THEN field_name
    ELSE IF NormalizeName(field_name) \in DOMAIN ShortNames
    THEN ShortNames[NormalizeName(field_name)]
    ELSE "System" \o field_name

_ensure_system_prefix(field_name) ==
    IF Contains(field_name, ".") THEN field_name
    ELSE IF NormalizeName(field_name) \in DOMAIN ShortNames
    THEN ShortNames[NormalizeName(field_name)]
    ELSE field_name

(***************************************************************************)
(* features/work_items/tools/types.py: the detail of one field             *)
(***************************************************************************)
\* s.lower()
RECURSIVE Lower(_)
Lower(s) ==
    IF Len(s) = 0 THEN ""
    ELSE LET c == SubSeq(s, 1, 1)
         IN  (IF c \in DOMAIN LowerCase THEN LowerCase[c] ELSE c)
             \o Lower(SubSeq(s, 2, Len(s)))

\* next((f.reference_name for f in all_fields
\*       if f.name.lower() == field_name.lower()), None);
\* a field without a name met before a match raises
RECURSIVE FindFieldRef(_, _)
FindFieldRef(all_fields, field_name) ==
    IF Len(all_fields) = 0 THEN Ok(NoneV)
    ELSE LET f == Head(all_fields)
         IN  IF f.attrs.name.kind # "str"
             THEN Fail("'NoneType' object has no attribute 'lower'")
             ELSE IF Lower(f.attrs.name.v) = Lower(field_name)
             THEN Ok(f.attrs.reference_name)
             ELSE FindFieldRef(Tail(all_fields), field_name)

RECURSIVE AllowedValueLines(_)
AllowedValueLines(values) ==
    IF Len(values) = 0 THEN <<>>
    ELSE << "- " \o Str(Head(values)) >> \o AllowedValueLines(Tail(values))

\* the rendering of the detail of a field
FieldDetail(field) ==
    LET allowed_values == GetAttr(field, "allowed_values", NoneV)
        default_value == GetAttr(field, "default_value", NoneV)
    IN  Join(<< "# Field: " \o Str(field.attrs.name),
                "Reference Name: " \o Str(field.attrs.reference_name) >>
             \o When(HasAttr(field, "description")
                         /\ Truthy(field.attrs.description),
                     << "Description: " \o Str(field.attrs.description) >>)
             \o When(HasAttr(field, "type"),
                     << "Type: " \o Str(field.attrs.type) >>)
             \o << "Required: "
                   \o (IF Truthy(GetAttr(field, "required", B(FALSE)))
                       THEN "Yes" ELSE "No"),
                   "Read Only: "
                   \o (IF Truthy(GetAttr(field, "read_only", B(FALSE)))
                       THEN "Yes" ELSE "No") >>
             \o When(Truthy(allowed_values),
                     << "\n## Allowed Values" >>
                     \o AllowedValueLines(allowed_values.items))
             \o When(default_value # NoneV,
                     << "\nDefault Value: " \o Str(default_value) >>),
             "\n")

\* the messages of the tool about the field called name
FieldNotFoundMsg(name, type_name, project) ==
    "Field '" \o name \o "' not found for work item type '" \o type_name
    \o "' in project '" \o project \o "'."

FieldErrorPrefix(name, type_name, project) ==
    "Error retrieving field '" \o name \o "' for work item type '"
    \o type_name \o "' in project '" \o project \o "': "

\* the part of the implementation from the detail fetch on; field_name is
\* the local variable as it stands there
FetchFieldDetail(cs, process_id, wit_ref_name, field_name, type_name, project, detailResp) ==
    LET c == [op |-> "get_work_item_type_field", process_id |-> process_id,
              wit_ref_name |-> wit_ref_name, field |-> field_name,
              resp |-> detailResp]
    IN  IF detailResp.kind = "fail"
        THEN Done(cs \o << c >>,
                  Ret(FieldErrorPrefix(field_name, type_name, project)
                      \o detailResp.msg))
        ELSE IF ~Truthy(detailResp.v)
        THEN Done(cs \o << c >>,
                  Ret(FieldNotFoundMsg(field_name, type_name, project)))
        ELSE Done(cs \o << c >>, Ret(FieldDetail(detailResp.v)))

\* mutant: the display name is compared as written
ResolveField_CaseSensitive(cs, process_id, wit_ref_name, field_name, type_name, project, fieldsResp, detailResp) ==
    LET c == [op |-> "get_all_work_item_type_fields",
              process_id |-> process_id, wit_ref_name |-> wit_ref_name,
              resp |-> fieldsResp]
        prefix == FieldErrorPrefix(field_name, type_name, project)
        named == SelectSeq(fieldsResp.v.items,
                           LAMBDA f : f.attrs.name = S(field_name))
    IN  IF fieldsResp.kind = "fail"
        THEN Done(cs \o << c >>, Ret(prefix \o fieldsResp.msg))
        ELSE IF fieldsResp.v = NoneV
        THEN Done(cs \o << c >>,
                  Ret(prefix \o "'NoneType' object is not iterable"))
        ELSE IF Len(named) = 0
        THEN Done(cs \o << c >>,
                  Ret(FieldNotFoundMsg(field_name, type_name, project)))
        ELSE FetchFieldDetail(cs \o << c >>, process_id, wit_ref_name,
                              named[1].attrs.reference_name.v, type_name,
                              project, detailResp)

\* the part of the implementation that turns a display name into a
\* reference name and goes on to the detail fetch
ResolveField(cs, process_id, wit_ref_name, field_name, type_name, project, fieldsResp, detailResp) ==
    LET c == [op |-> "get_all_work_item_type_fields",
              process_id |-> process_id, wit_ref_name |-> wit_ref_name,
              resp |-> fieldsResp]
        prefix == FieldErrorPrefix(field_name, type_name, project)
        field_ref == FindFieldRef(fieldsResp.v.items, field_name)
    IN  IF fieldsResp.kind = "fail"
        THEN Done(cs \o << c >>, Ret(prefix \o fieldsResp.msg))
        ELSE IF fieldsResp.v = NoneV
        THEN Done(cs \o << c >>,
                  Ret(prefix \o "'NoneType' object is not iterable"))
        ELSE IF field_ref.kind = "fail"
        THEN Done(cs \o << c >>, Ret(prefix \o field_ref.msg))
        ELSE IF ~Truthy(field_ref.v)
        THEN Done(cs \o << c >>,
                  Ret(FieldNotFoundMsg(field_name, type_name, project)))
        ELSE FetchFieldDetail(cs \o << c >>, process_id, wit_ref_name,
                              field_ref.v.v, type_name, project, detailResp)

_get_work_item_type_field_impl(e, project, type_name, field_name, typeResp, projectResp, fieldsResp, detailResp) ==
    LET prefix == FieldErrorPrefix(field_name, type_name, project)
        c1 == [op |-> "get_work_item_type", project |-> project,
               type |-> type_name, resp |-> typeResp]
        core_client == get_core_client(e)
        c2 == [op |-> "get_project", project |-> project,
               include_capabilities |-> TRUE, resp |-> projectResp]
        process_client == get_work_item_tracking_process_client(e)
        process_id == ProcessTemplateValue(projectResp.v, "templateTypeId")
    IN  IF typeResp.kind = "fail"
        THEN Done(<< c1 >>, Ret(prefix \o typeResp.msg))
        ELSE IF ~Truthy(typeResp.v)
        THEN Done(<< c1 >>,
                  Ret("Work item type '" \o type_name
                      \o "' not found in project " \o project \o "."))
        ELSE IF core_client.kind = "raise"
        THEN Done(<< c1 >>, Ret(prefix \o core_client.msg))
        ELSE IF projectResp.kind = "fail"
        THEN Done(<< c1, c2 >>, Ret(prefix \o projectResp.msg))
        ELSE IF ~Truthy(process_id)
        THEN Done(<< c1, c2 >>,
                  Ret("Could not determine process ID for project " \o project))
        ELSE IF process_client.kind = "raise"
        THEN Done(<< c1, c2 >>, Ret(prefix \o process_client.msg))
        ELSE IF ~Contains(field_name, ".")
        THEN ResolveField(<< c1, c2 >>, process_id,
                          typeResp.v.attrs.reference_name, field_name,
                          type_name, project, fieldsResp, detailResp)
        ELSE FetchFieldDetail(<< c1, c2 >>, process_id,
                              typeResp.v.attrs.reference_name, field_name,
                              type_name, project, detailResp)

get_work_item_type_field(e, project, type_name, field_name, typeResp, projectResp, fieldsResp, detailResp) ==
    LET wit_client == get_work_item_client(e)
    IN  IF wit_client.kind = "raise"
        THEN CatchClientError(Done(<<>>, wit_client))
        ELSE CatchClientError(
                 _get_work_item_type_field_impl(e, project, type_name,
                                                field_name, typeResp,
                                                projectResp, fieldsResp,
                                                detailResp))

(***************************************************************************)
(* features/projects/tools.py and features/teams/tools.py: the formatters  *)
(***************************************************************************)
\* if hasattr(o, attr) and o.attr: append(f"{label}{o.attr}")
OptLine(o, attr, label) ==
    When(HasAttr(o, attr) /\ Truthy(o.attrs[attr]),
         << label \o Str(o.attrs[attr]) >>)

_format_project(project) ==
    Join(<< "# Project: " \o Str(project.attrs.name),
            "ID: " \o Str(project.attrs.id) >>
         \o OptLine(project, "description", "Description: ")
         \o OptLine(project, "state", "State: ")
         \o OptLine(project, "visibility", "Visibility: ")
         \o OptLine(project, "url", "URL: ")
         \o OptLine(project, "last_update_time", "Last Updated: "),
         "\n")

_format_team(team) ==
    Join(<< "# Team: " \o Str(team.attrs.name),
            "ID: " \o Str(team.attrs.id) >>
         \o OptLine(team, "description", "Description: ")
         \o OptLine(team, "project_name", "Project: ")
         \o OptLine(team, "project_id", "Project ID: "),
         "\n")

\* the lines about the identity of a team member; an identity with neither
\* a display name nor an id attribute raises
IdentityLines(identity) ==
    (IF HasAttr(identity, "display_name")
        /\ Truthy(identity.attrs.display_name)
     THEN << "# Member: " \o Str(identity.attrs.display_name) >>
     ELSE << "# Member ID: " \o Str(identity.attrs.id) >>)
    \o OptLine(identity, "id", "ID: ")
    \o OptLine(identity, "descriptor", "Descriptor: ")
    \o OptLine(identity, "unique_name", "Email/Username: ")

_format_team_member(team_member) ==
    LET known == HasAttr(team_member, "identity")
                 /\ Truthy(team_member.attrs.identity)
        identity == team_member.attrs.identity
        admin == When(HasAttr(team_member, "is_team_admin"),
                      << "Team Administrator: "
                         \o (IF Truthy(team_member.attrs.is_team_admin)
                             THEN "Yes" ELSE "No") >>)
    IN  IF known /\ ~(HasAttr(identity, "display_name")
                      /\ Truthy(identity.attrs.display_name))
           /\ ~HasAttr(identity, "id")
        THEN Raise("AttributeError", "'Identity' object has no attribute 'id'")
        ELSE Ret(Join((IF known THEN IdentityLines(identity)
                       ELSE << "# Unknown Member" >>) \o admin, "\n"))

\* one line per area path, with the suffix for included sub-areas
RECURSIVE AreaPathLines(_)
AreaPathLines(values) ==
    IF Len(values) = 0 THEN <<>>
    ELSE LET area_path == Head(values)
         IN  << "- " \o Str(area_path.attrs.value)
                \o (IF HasAttr(area_path, "include_children")
                       /\ Truthy(area_path.attrs.include_children)
                    THEN " (Including sub-areas)" ELSE "") >>
             \o AreaPathLines(Tail(values))

_format_team_area_path(team_field_values) ==
    Join(<< "# Team Area Paths" >>
         \o OptLine(team_field_values, "default_value", "Default Area Path: ")
         \o When(HasAttr(team_field_values, "values")
                     /\ Truthy(team_field_values.attrs.values),
                 << "\n## All Area Paths:" >>
                 \o AreaPathLines(team_field_values.attrs.values.items)),
         "\n")

_format_team_iteration(iteration) ==
    Join(<< "# Iteration: " \o Str(iteration.attrs.name) >>
         \o OptLine(iteration, "id", "ID: ")
         \o OptLine(iteration, "path", "Path: ")
         \o When(HasAttr(iteration, "attributes")
                     /\ Truthy(iteration.attrs.attributes),
                 OptLine(iteration.attrs.attributes, "start_date",
                         "Start Date: ")
                 \o OptLine(iteration.attrs.attributes, "finish_date",
                            "Finish Date: ")
                 \o OptLine(iteration.attrs.attributes, "time_frame",
                            "Time Frame: ")),
         "\n")

(***************************************************************************)
(* features/teams/common.py and the area-path tool of                      *)
(* features/teams/tools.py.  The teams feature has its own class           *)
(* AzureDevOpsClientError.                                                 *)
(***************************************************************************)
get_work_client(e) ==
    LET connection == get_connection(e)
    IN  IF ~Truthy(connection)
        THEN Raise("teams.AzureDevOpsClientError", NoCredentialsMsg)
        ELSE IF "work" \in e.nofab
        THEN Raise("teams.AzureDevOpsClientError", "Failed to get work client.")
        ELSE Ret("work_client")

teams_get_core_client(e) ==
    LET connection == get_connection(e)
    IN  IF ~Truthy(connection)
        THEN Raise("teams.AzureDevOpsClientError", NoCredentialsMsg)
        ELSE IF "core" \in e.nofab
        THEN Raise("teams.AzureDevOpsClientError", "Failed to get core client.")
        ELSE Ret("core_client")

\* mutant: an answer without a value is rendered like any other
_get_team_area_paths_impl_NoEmptyMessage(project_name_or_id, team_name_or_id, valuesResp) ==
    LET c == [op |-> "get_team_field_values", project |-> project_name_or_id,
              team |-> team_name_or_id, resp |-> valuesResp]
    IN  IF valuesResp.kind = "fail"
        THEN Done(<< c >>, Ret("Error retrieving team area paths: "
                               \o valuesResp.msg))
        ELSE Done(<< c >>, Ret("# Team Area Paths"))

_get_team_area_paths_impl(project_name_or_id, team_name_or_id, valuesResp) ==
    LET c == [op |-> "get_team_field_values", project |-> project_name_or_id,
              team |-> team_name_or_id, resp |-> valuesResp]
    IN  IF valuesResp.kind = "fail"
        THEN Done(<< c >>, Ret("Error retrieving team area paths: "
                               \o valuesResp.msg))
        ELSE IF ~Truthy(valuesResp.v)
        THEN Done(<< c >>, Ret("No area paths found for team "
                               \o team_name_or_id \o " in project "
                               \o project_name_or_id \o "."))
        ELSE Done(<< c >>, Ret(_format_team_area_path(valuesResp.v)))

get_team_area_paths(e, project_name_or_id, team_name_or_id, valuesResp) ==
    LET work_client == get_work_client(e)
    IN  IF work_client.kind = "raise"
        THEN Done(<<>>, Ret("Error: " \o work_client.msg))
        ELSE _get_team_area_paths_impl(project_name_or_id, team_name_or_id,
                                       valuesResp)

(***************************************************************************)
(* Inputs: the environments, the arguments of the tools and the outcomes   *)
(* of the backing API calls.                                               *)
(***************************************************************************)
SeqsUpTo(set, n) == UNION { [1..k -> set] : k \in 0..n }

Ids == 1..MaxId

Envs ==
    [pat : {NoneV, S(""), S("pat")},
     url : {NoneV, S(""), S("https://dev.azure.com/org"),
            S("https://dev.azure.com/org/")},
     nofab : {{}, {"wit"}, {"core"}, {"process"}, {"work"}}]

Msgs == {"boom"}

Failures == { Fail(m) : m \in Msgs }

WorkItem(id, fields) ==
    [kind |-> "workitem", id |-> I(id), rev |-> I(1), fields |-> fields,
     relations |-> <<>>, _links |-> NoneV]

BaseFields ==
    "System.Title" :> S("T") @@ "System.WorkItemType" :> S("Bug")
    @@ "System.State" :> S("New")

ProjectFields == BaseFields @@ "System.TeamProject" :> S("P")

\* the work items the backing API returns for a lookup
LookupItems ==
    { WorkItem(i, f) : i \in Ids,
        f \in { <<>>, BaseFields, ProjectFields,
                BaseFields @@ "System.TeamProject" :> S("") } }

\* the work items of a batch, of a create and of an update
Items == { WorkItem(i, ProjectFields) : i \in Ids }

BatchResps ==
    Failures \cup {Ok(NoneV)}
    \cup { Ok(L(b)) : b \in SeqsUpTo(Items \cup {NoneV}, MaxBatch) }

WiqlResps ==
    Failures \cup {Ok(NoneV)} \cup { Ok(L(r)) : r \in SeqsUpTo(Ids, MaxBatch) }

ItemResps == Failures \cup { Ok(w) : w \in Items }

LookupResps == Failures \cup {Ok(NoneV)} \cup { Ok(w) : w \in LookupItems }

Comment(author, date, text) ==
    Obj([created_by |-> author, created_date |-> date, text |-> text])

Comments ==
    { Comment(a, d, t) :
        a \in {NoneV, Obj([display_name |-> S("Ann")])},
        d \in {NoneV, S("2024-01-02")},
        t \in {S(""), S("hello")} }

CommentsResps ==
    Failures \cup { Ok(L(c)) : c \in SeqsUpTo(Comments, 1) }
    \cup { Ok(L(<< Comment(NoneV, NoneV, S("one")),
                   Comment(NoneV, NoneV, S("two")) >>)) }

CommentResps == Failures \cup { Ok(c) : c \in Comments }

OptProjects == {NoneV, S(""), S("P")}

NoOptional ==
    [description |-> NoneV, state |-> NoneV, assigned_to |-> NoneV,
     iteration_path |-> NoneV, area_path |-> NoneV, story_points |-> NoneV,
     priority |-> NoneV, tags |-> NoneV]

OptionalValues ==
    [description |-> {S(""), S("D")}, state |-> {S(""), S("Active")},
     assigned_to |-> {S(""), S("a@x")}, iteration_path |-> {S(""), S("It")},
     area_path |-> {S(""), S("Ar")}, story_points |-> {F(0), F(5)},
     priority |-> {I(0), I(2)}, tags |-> {S(""), S("t1")}]

\* the optional fields of create and update: none, one at a time, all
OptionalInputs ==
    {NoOptional}
    \cup UNION { { [NoOptional EXCEPT ![n] = v] : v \in OptionalValues[n] } :
                  n \in DOMAIN NoOptional }
    \cup { [description |-> S(""), state |-> S(""), assigned_to |-> S(""),
            iteration_path |-> S(""), area_path |-> S(""),
            story_points |-> NoneV, priority |-> NoneV, tags |-> S("")],
           [description |-> S("D"), state |-> S("Active"),
            assigned_to |-> S("a@x"), iteration_path |-> S("It"),
            area_path |-> S("Ar"), story_points |-> F(5), priority |-> I(2),
            tags |-> S("t1")] }

\* work items that exercise the shapes of the person-valued fields
PersonFieldNames ==
    {"System.AssignedTo", "System.CreatedBy",
     "Microsoft.VSTS.Common.ActivatedBy", "Microsoft.VSTS.Common.ResolvedBy",
     "System.ChangedBy"}

PersonValues ==
    { Dict([displayName |-> S("A"), uniqueName |-> S("b@x")]),
      Dict([displayName |-> S("A")]),
      Obj([display_name |-> S("A"), unique_name |-> S("b@x")]),
      Obj([display_name |-> S("A")]),
      S("C") }

\* the fields that a mapping may lack, hold empty or hold filled
SparseFieldKeys ==
    {"System.Title", "System.State", "System.Description", "System.Reason",
     "System.IterationPath", "System.Tags"}

SparseFields ==
    UNION { [K -> {S(""), S("v")}] : K \in SUBSET SparseFieldKeys }

\* the board column and its done flag, each absent or set
BoardFields ==
    { c @@ d :
        c \in { <<>>, "System.BoardColumn" :> S("Doing") },
        d \in { <<>>, "System.BoardColumnDone" :> B(TRUE),
                "System.BoardColumnDone" :> B(FALSE) } }

FormatItems ==
    { WorkItem(1, f) : f \in {<<>>, BaseFields, ProjectFields} }
    \cup { WorkItem(1, f) : f \in SparseFields }
    \cup { WorkItem(1, base @@ f) : base \in {<<>>, BaseFields}, f \in BoardFields }
    \cup { WorkItem(1, BaseFields @@ "System.ChangedDate" :> S("2024-01-02")
                       @@ n :> p) :
             n \in PersonFieldNames, p \in PersonValues }

\* the reference links a work item may carry
LinksValues ==
    { NoneV,
      Obj([self |-> Obj([href |-> S("http://api/1")]),
           html |-> Obj([href |-> S("http://web/1")])]),
      Obj([self |-> Obj([href |-> S("http://api/1")])]),
      Obj([html |-> Obj([href |-> S("http://web/1")])]) }

\* the work items the basic rendering is applied to
BasicItems ==
    { [WorkItem(i, f) EXCEPT !._links = l] :
        i \in Ids, f \in {<<>>, BaseFields, ProjectFields}, l \in LinksValues }

BasicItemResps == Failures \cup { Ok(w) : w \in BasicItems }

\* the field names handed to the normalization
FieldNameInputs ==
    {"title", "description", "assignedTo", "iterationPath", "area_path",
     "storyPoints", "priority", "Title", "AREA_PATH", "System.Title",
     "Microsoft.VSTS.Common.Priority", "Custom.Field", "CustomField",
     "Effort", ""}

\* the fields a listing of the fields of a type holds
ListedFields ==
    { Obj([name |-> S("Priority"),
           reference_name |-> S("Microsoft.VSTS.Common.Priority")]),
      Obj([name |-> S("Title"), reference_name |-> S("System.Title")]),
      Obj([name |-> NoneV, reference_name |-> S("Custom.Unnamed")]) }

AllFieldsResps ==
    Failures \cup {Ok(NoneV)}
    \cup { Ok(L(f)) : f \in SeqsUpTo(ListedFields, 2) }

\* the details the backing API returns for a field
DetailedFields ==
    { Obj([name |-> S("Priority"),
           reference_name |-> S("Microsoft.VSTS.Common.Priority"),
           description |-> S("Importance"), type |-> S("integer"),
           required |-> B(TRUE), read_only |-> B(FALSE),
           allowed_values |-> L(<< I(1), I(2) >>), default_value |-> I(2)]),
      Obj([name |-> S("Title"), reference_name |-> S("System.Title")]) }

DetailResps == Failures \cup {Ok(NoneV)} \cup { Ok(f) : f \in DetailedFields }

\* the names a caller gives for a field
FieldNameArgs ==
    {"Priority", "priority", "Microsoft.VSTS.Common.Priority",
     "NonExistentField"}

\* the field mappings handed to the document builder: distinct names, some
\* already written as paths
FieldEntries ==
    { << "System.Title", S("T") >>, << "/fields/System.State", S("New") >>,
      << "Custom.Field", S("x") >> }

FieldMappings ==
    { f \in SeqsUpTo(FieldEntries, 3) :
        \A i, j \in 1..Len(f) : i # j => f[i][1] # f[j][1] }

\* the optional attributes of an object: any subset of them, each null or set
Chosen(optional, f) ==
    [n \in DOMAIN f |-> IF f[n] = "set" THEN optional[n] ELSE NoneV]

OptionalObjects(base, optional) ==
    { Obj(base @@ Chosen(optional, f)) :
        f \in UNION { [names -> {"null", "set"}] :
                        names \in SUBSET DOMAIN optional } }

ProjectOptional ==
    [description |-> S("Desc"), state |-> S("wellFormed"),
     visibility |-> S("private"), url |-> S("http://p"),
     last_update_time |-> S("2024-01-02")]

Projects ==
    OptionalObjects([name |-> S("P"), id |-> S("p-1")], ProjectOptional)
    \cup { Obj([name |-> S("P"), id |-> S("p-1"), description |-> S(""),
                state |-> S("")]) }

TeamOptional ==
    [description |-> S("Desc"), project_name |-> S("P"),
     project_id |-> S("p-1")]

Teams ==
    OptionalObjects([name |-> S("T"), id |-> S("t-1")], TeamOptional)
    \cup { Obj([name |-> S("T"), id |-> S("t-1"), description |-> S("")]) }

IdentityOptional ==
    [display_name |-> S("Ann"), id |-> S("u-1"), descriptor |-> S("aad.x"),
     unique_name |-> S("ann@x")]

TeamMembers ==
    { Obj(m) :
        m \in UNION { { <<>> @@ a, [identity |-> i] @@ a } :
                        i \in {NoneV}
                              \cup OptionalObjects(<<>>, IdentityOptional),
                        a \in { <<>>, [is_team_admin |-> B(TRUE)],
                                [is_team_admin |-> B(FALSE)] } } }

AreaPaths ==
    OptionalObjects([value |-> S("P\\A")], [include_children |-> B(TRUE)])
    \cup { Obj([value |-> S("P\\B"), include_children |-> B(FALSE)]) }

TeamFieldValues ==
    { Obj(d @@ v) :
        d \in { <<>>, [default_value |-> NoneV], [default_value |-> S("")],
                [default_value |-> S("P\\A")] },
        v \in { <<>>, [values |-> NoneV] }
              \cup { [values |-> L(p)] : p \in SeqsUpTo(AreaPaths, 2) } }

\* what get_team_field_values answers
TeamFieldValuesResps ==
    Failures \cup { Ok(NoneV), Ok(L(<<>>)) }
    \cup { Ok(t) : t \in TeamFieldValues }

IterationAttributesOptional ==
    [start_date |-> S("2024-01-01"), finish_date |-> S("2024-01-14"),
     time_frame |-> S("current")]

Iterations ==
    { Obj([name |-> S("Sprint 1")] @@ i @@ a) :
        i \in { Chosen([id |-> S("i-1"), path |-> S("P\\Sprint 1")], f) :
                  f \in UNION { [names -> {"null", "set"}] :
                                  names \in SUBSET {"id", "path"} } },
        a \in { <<>>, [attributes |-> NoneV] }
              \cup { [attributes |-> o] :
                       o \in OptionalObjects(<<>>,
                                             IterationAttributesOptional) } }

WorkItemTypes ==
    { Obj([name |-> S("Bug"), reference_name |-> S("Microsoft.VSTS.WorkItemTypes.Bug")]),
      Obj([name |-> S("Bug"), reference_name |-> S("Microsoft.VSTS.WorkItemTypes.Bug"),
           description |-> NoneV, color |-> S("CC293D"), icon |-> NoneV,
           is_disabled |-> B(FALSE),
           states |-> L(<< Obj([name |-> S("New"), category |-> S("Proposed"),
                               color |-> S("b2b2b2"), order |-> I(1)]) >>)]),
      Obj([name |-> S("Task"), reference_name |-> S("Microsoft.VSTS.WorkItemTypes.Task"),
           description |-> S("Tracks work")]) }

TypeResps == Failures \cup {Ok(NoneV)} \cup { Ok(w) : w \in WorkItemTypes }

TypesResps ==
    Failures \cup {Ok(NoneV)}
    \cup { Ok(L(w)) : w \in SeqsUpTo(WorkItemTypes, 2) }

ProjectDetails ==
    { Obj([name |-> S("P"), capabilities |-> Dict(c)]) :
        c \in { <<>>,
                [processTemplate |-> Dict(<<>>)],
                [processTemplate |-> Dict([templateName |-> S("Agile")])],
                [processTemplate |->
                    Dict([templateTypeId |-> S(""),
                          templateName |-> S("Agile")])],
                [processTemplate |->
                    Dict([templateTypeId |-> S("pid-1"),
                          templateName |-> S("Agile")])] } }

ProjectResps == Failures \cup { Ok(p) : p \in ProjectDetails }

TypeFields ==
    { Obj([name |-> S("Priority"),
           reference_name |-> S("Microsoft.VSTS.Common.Priority"),
           type |-> S("integer"), required |-> B(TRUE), read_only |-> B(FALSE)]),
      Obj([name |-> S("Title"), reference_name |-> S("System.Title")]) }

FieldsResps ==
    Failures \cup {Ok(NoneV)} \cup { Ok(L(f)) : f \in SeqsUpTo(TypeFields, 1) }

(***************************************************************************)
(* resources/work_items.py: the resource azuredevops://workitems/{id}.     *)
(***************************************************************************)
\* int(id) for the ids the resource is read with
ParseInt(id) ==
    IF \E i \in Ids : ToString(i) = id
    THEN Ret(CHOOSE i \in Ids : ToString(i) = id)
    ELSE Raise("ValueError",
               "invalid literal for int() with base 10: '" \o id \o "'")

\* the lines the resource renders for a work item
ResourceDetails(work_item) ==
    LET fields == work_item.fields
    IN  << "# Work Item " \o Str(work_item.id) \o ": "
              \o Str(Get(fields, "System.Title", S("Untitled"))),
           "Type: " \o Str(Get(fields, "System.WorkItemType", S("Unknown"))),
           "State: " \o Str(Get(fields, "System.State", S("Unknown"))) >>
        \o When("System.Description" \in DOMAIN fields,
                << "\n## Description", Str(fields["System.Description"]) >>)
        \o When("System.AssignedTo" \in DOMAIN fields,
                << "\nAssigned To: " \o Str(fields["System.AssignedTo"]) >>)
        \o When("System.IterationPath" \in DOMAIN fields,
                << "Iteration: " \o Str(fields["System.IterationPath"]) >>)
        \o When("System.AreaPath" \in DOMAIN fields,
                << "Area: " \o Str(fields["System.AreaPath"]) >>)

resource_get_work_item(e, id, getResp) ==
    LET pat == e.pat
        organization_url == e.url
        prefix == "Error retrieving work item " \o id \o ": "
        parsed == ParseInt(id)
    IN  IF ~Truthy(pat) \/ ~Truthy(organization_url)
        THEN Done(<<>>, Ret("Error: " \o NoCredentialsMsg))
        ELSE IF "wit" \in e.nofab
        THEN Done(<<>>, Ret(prefix \o "'NoneType' object has no attribute 'get_work_item'"))
        ELSE IF parsed.kind = "raise"
        THEN Done(<<>>, Ret(prefix \o parsed.msg))
        ELSE LET c == [op |-> "get_work_item", id |-> parsed.value,
                       resp |-> getResp]
             IN  IF getResp.kind = "fail"
                 THEN Done(<< c >>, Ret(prefix \o getResp.msg))
                 ELSE Done(<< c >>, Ret(Join(ResourceDetails(getResp.v), "\n")))

(***************************************************************************)
(* The state machine: one action per registered tool, each a whole         *)
(* invocation.                                                             *)
(***************************************************************************)
\* what get_work_item answers the resource with
ResourceItemResps ==
    ItemResps
    \cup { Ok(WorkItem(1, BaseFields
                         @@ "System.Description" :> S("D")
                         @@ "System.AssignedTo" :> S("ann")
                         @@ "System.IterationPath" :> S("It")
                         @@ "System.AreaPath" :> S("Ar"))) }

\* the invocations the transport may have in flight at once
Procs == {"a", "b"}

\* the locals of an invocation that has not been dispatched
Fresh ==
    [pc |-> "idle", tool |-> "none", a |-> [none |-> TRUE], resps |-> <<>>,
     connection |-> NoneV, item |-> NoneV, calls |-> <<>>,
     out |-> [kind |-> "none"], overlapped |-> FALSE]

Init ==
    /\ env \in Envs
    /\ tool = "none"
    /\ args = [none |-> TRUE]
    /\ calls = <<>>
    /\ out = [kind |-> "none"]
    /\ inv = [p \in Procs |-> Fresh]

\* no invocation is in progress
Idle == tool = "none"

\* the invocation of tool t with arguments a does d
Invoke(t, a, d) ==
    /\ tool' = t
    /\ args' = a
    /\ calls' = d.calls
    /\ out' = d.out
    /\ UNCHANGED <<env, inv>>

QueryWorkItems ==
    /\ Idle
    /\ \E top \in {NoneV, I(0), I(10)}, wiqlResp \in WiqlResps,
       batchResp \in BatchResps :
        Invoke("query_work_items", [query |-> "SELECT", top |-> top],
               query_work_items(env, "SELECT", top, wiqlResp, batchResp))

GetWorkItem ==
    /\ Idle
    /\ \E id \in { I(i) : i \in Ids } \cup { L(l) : l \in SeqsUpTo(Ids, MaxBatch) },
       getResp \in ItemResps, batchResp \in BatchResps :
        Invoke("get_work_item", [id |-> id],
               get_work_item(env, id, getResp, batchResp))

GetWorkItemComments ==
    /\ Idle
    /\ \E id \in Ids, project \in OptProjects, lookupResp \in LookupResps,
       commentsResp \in CommentsResps :
        Invoke("get_work_item_comments", [id |-> id, project |-> project],
               get_work_item_comments(env, id, project, lookupResp,
                                      commentsResp))

AddWorkItemComment ==
    /\ Idle
    /\ \E id \in Ids, project \in OptProjects, lookupResp \in LookupResps,
       addResp \in CommentResps :
        Invoke("add_work_item_comment",
               [id |-> id, text |-> "hello", project |-> project],
               add_work_item_comment(env, id, "hello", project, lookupResp,
                                     addResp))

CreateWorkItem ==
    /\ Idle
    /\ \E opt \in OptionalInputs, title \in {S(""), S("T")},
       parent_id \in {NoneV, I(0)} \cup { I(i) : i \in Ids },
       createResp \in ItemResps, linkResp \in ItemResps :
        LET a == [title |-> title, project |-> S("P"),
                  work_item_type |-> S("Bug"), parent_id |-> parent_id]
                 @@ opt
        IN  Invoke("create_work_item", a,
                   create_work_item(env, a, createResp, linkResp))

UpdateWorkItem ==
    /\ Idle
    /\ \E opt \in OptionalInputs, id \in Ids, project \in {NoneV, S("P")},
       title \in {NoneV, S(""), S("T")}, updateResp \in ItemResps :
        LET a == [id |-> id, project |-> project, title |-> title] @@ opt
        IN  Invoke("update_work_item", a, update_work_item(env, a, updateResp))

AddParentChildLink ==
    /\ Idle
    /\ \E parent_id \in Ids, child_id \in Ids, project \in {NoneV, S("P")},
       updateResp \in ItemResps :
        Invoke("add_parent_child_link",
               [parent_id |-> parent_id, child_id |-> child_id,
                project |-> project],
               add_parent_child_link(env, I(parent_id), child_id, project,
                                     updateResp))

GetWorkItemTypes ==
    /\ Idle
    /\ \E typesResp \in TypesResps :
        Invoke("get_work_item_types", [project |-> "P"],
               get_work_item_types(env, "P", typesResp))

GetWorkItemType ==
    /\ Idle
    /\ \E typeResp \in TypeResps :
        Invoke("get_work_item_type", [project |-> "P", type_name |-> "Bug"],
               get_work_item_type(env, "P", "Bug", typeResp))

GetWorkItemTypeFields ==
    /\ Idle
    /\ \E typeResp \in TypeResps, projectResp \in ProjectResps,
       fieldsResp \in FieldsResps :
        Invoke("get_work_item_type_fields",
               [project |-> "P", type_name |-> "Bug"],
               get_work_item_type_fields(env, "P", "Bug", typeResp,
                                         projectResp, fieldsResp))

GetWorkItemTypeField ==
    /\ Idle
    /\ \E field_name \in FieldNameArgs, typeResp \in TypeResps,
       projectResp \in ProjectResps, fieldsResp \in AllFieldsResps,
       detailResp \in DetailResps :
        Invoke("get_work_item_type_field",
               [project |-> "P", type_name |-> "Bug",
                field_name |-> field_name],
               get_work_item_type_field(env, "P", "Bug", field_name, typeResp,
                                        projectResp, fieldsResp, detailResp))

GetProjectProcessId ==
    /\ Idle
    /\ \E projectResp \in ProjectResps :
        Invoke("get_project_process_id", [project |-> "P"],
               get_project_process_id(env, "P", projectResp))

\* the formatter applied to a work item on its own
FormatWorkItem ==
    /\ Idle
    /\ \E work_item \in FormatItems :
        Invoke("format_work_item", [work_item |-> work_item],
               Done(<<>>, Ret(format_work_item(work_item))))

GetWorkItemBasic ==
    /\ Idle
    /\ \E id \in Ids, getResp \in BasicItemResps :
        Invoke("get_work_item_basic", [id |-> id],
               get_work_item_basic(env, id, getResp))

EnsureSystemPrefix ==
    /\ Idle
    /\ \E field_name \in FieldNameInputs :
        Invoke("_ensure_system_prefix", [field_name |-> field_name],
               Done(<<>>, Ret(_ensure_system_prefix(field_name))))

BuildFieldDocument ==
    /\ Idle
    /\ \E fields \in FieldMappings, operation \in {"add", "replace"} :
        Invoke("_build_field_document",
               [fields |-> fields, operation |-> operation],
               Done(<<>>, [kind |-> "return",
                           value |-> _build_field_document(fields, operation)]))

FormatProject ==
    /\ Idle
    /\ \E project \in Projects :
        Invoke("_format_project", [object |-> project],
               Done(<<>>, Ret(_format_project(project))))

FormatTeam ==
    /\ Idle
    /\ \E team \in Teams :
        Invoke("_format_team", [object |-> team],
               Done(<<>>, Ret(_format_team(team))))

FormatTeamMember ==
    /\ Idle
    /\ \E team_member \in TeamMembers :
        Invoke("_format_team_member", [object |-> team_member],
               Done(<<>>, _format_team_member(team_member)))

FormatTeamAreaPath ==
    /\ Idle
    /\ \E team_field_values \in TeamFieldValues :
        Invoke("_format_team_area_path", [object |-> team_field_values],
               Done(<<>>, Ret(_format_team_area_path(team_field_values))))

\* the client accessors, by module
ClientAccessors ==
    {"work_items.common.get_work_item_client", "teams.common.get_core_client",
     "teams.common.get_work_client", "utils.azure_client.get_core_client",
     "utils.azure_client.get_work_item_tracking_process_client"}

GetClient ==
    /\ Idle
    /\ \E accessor \in ClientAccessors :
        Invoke(accessor, <<>>,
               Done(<<>>,
                    CASE accessor = "work_items.common.get_work_item_client" ->
                           get_work_item_client(env)
                      [] accessor = "teams.common.get_core_client" ->
                           teams_get_core_client(env)
                      [] accessor = "teams.common.get_work_client" ->
                           get_work_client(env)
                      [] accessor = "utils.azure_client.get_core_client" ->
                           get_core_client(env)
                      [] OTHER -> get_work_item_tracking_process_client(env)))

ReadWorkItemResource ==
    /\ Idle
    /\ \E id \in { ToString(i) : i \in Ids } \cup {"x"},
         getResp \in ResourceItemResps :
        Invoke("azuredevops://workitems/{id}", [id |-> id],
               resource_get_work_item(env, id, getResp))

GetConnection ==
    /\ Idle
    /\ Invoke("get_connection", <<>>, Done(<<>>, Ret(get_connection(env))))

GetTeamAreaPaths ==
    /\ Idle
    /\ \E valuesResp \in TeamFieldValuesResps :
        Invoke("get_team_area_paths", [project |-> "P", team |-> "T"],
               get_team_area_paths(env, "P", "T", valuesResp))

FormatTeamIteration ==
    /\ Idle
    /\ \E iteration \in Iterations :
        Invoke("_format_team_iteration", [object |-> iteration],
               Done(<<>>, Ret(_format_team_iteration(iteration))))

\* the result goes back to the caller and the server awaits the next request;
\* nothing of the invocation is kept
Respond ==
    /\ tool # "none"
    /\ tool' = "none"
    /\ args' = [none |-> TRUE]
    /\ calls' = <<>>
    /\ out' = [kind |-> "none"]
    /\ UNCHANGED <<env, inv>>

Next ==
    \/ Respond
    \/ QueryWorkItems
    \/ GetWorkItem
    \/ GetWorkItemComments
    \/ AddWorkItemComment
    \/ CreateWorkItem
    \/ UpdateWorkItem
    \/ AddParentChildLink
    \/ GetWorkItemTypes
    \/ GetWorkItemType
    \/ GetWorkItemTypeFields
    \/ GetWorkItemTypeField
    \/ GetProjectProcessId
    \/ FormatWorkItem
    \/ GetWorkItemBasic
    \/ EnsureSystemPrefix
    \/ BuildFieldDocument
    \/ FormatProject
    \/ FormatTeam
    \/ FormatTeamMember
    \/ FormatTeamAreaPath
    \/ FormatTeamIteration
    \/ GetTeamAreaPaths
    \/ GetConnection
    \/ GetClient
    \/ ReadWorkItemResource

Spec == Init /\ [][Next]_vars

(***************************************************************************)
(* Concurrent dispatch.  The transport may run several invocations at      *)
(* once; each runs the statements of its tool in order, and the statements *)
(* of different invocations interleave.  inv[p] holds the locals of        *)
(* invocation p: its connection, the backing responses it is answered      *)
(* with, the item it created, the calls it made and its result.  The       *)
(* environment is the only state the invocations share.                    *)
(***************************************************************************)
ConcEnvs ==
    { e \in Envs : /\ e.url = S("https://dev.azure.com/org/")
                   /\ e.pat \in {NoneV, S("pat")}
                   /\ e.nofab \in {{}, {"wit"}} }

ConcResps == Failures \cup { Ok(WorkItem(i, BaseFields)) : i \in {1, 2} }

ConcCreateArgs ==
    { [title |-> S("T"), project |-> S("P"), work_item_type |-> S("Bug"),
       parent_id |-> parent_id] @@ NoOptional : parent_id \in {NoneV, I(1)} }

ConcInit ==
    /\ env \in ConcEnvs
    /\ tool = "none"
    /\ args = [none |-> TRUE]
    /\ calls = <<>>
    /\ out = [kind |-> "none"]
    /\ inv = [p \in Procs |-> Fresh]

\* another invocation is between its dispatch and its result
OthersInFlight(p) ==
    \E q \in Procs \ {p} : inv[q].pc \notin {"idle", "done"}

\* invocation p takes a step to the locals l
Step(p, l) ==
    /\ inv' = [inv EXCEPT ![p] =
                  [l EXCEPT !.overlapped = inv[p].overlapped \/ OthersInFlight(p)]]
    /\ UNCHANGED <<env, tool, args, calls, out>>

\* invocation p ends with result o
Finish(p, o) == Step(p, [inv[p] EXCEPT !.pc = "done", !.out = o])

Dispatch(p) ==
    /\ inv[p].pc = "idle"
    /\ \/ \E getResp \in ConcResps :
             Step(p, [Fresh EXCEPT !.pc = "connect", !.tool = "get_work_item",
                                   !.a = [id |-> I(1)],
                                   !.resps = << getResp >>])
       \/ \E a \in ConcCreateArgs, createResp \in ConcResps,
             linkResp \in ConcResps :
             Step(p, [Fresh EXCEPT !.pc = "connect",
                                   !.tool = "create_work_item", !.a = a,
                                   !.resps = << createResp, linkResp >>])

\* get_work_item_client: connection = get_connection()
Connect(p) ==
    /\ inv[p].pc = "connect"
    /\ LET connection == get_connection(env)
       IN  IF ~Truthy(connection)
           THEN Finish(p, Ret("Error: " \o NoCredentialsMsg))
           ELSE Step(p, [inv[p] EXCEPT !.pc = "fabricate",
                                       !.connection = connection])

\* get_work_item_client: connection.clients.get_work_item_tracking_client()
Fabricate(p) ==
    /\ inv[p].pc = "fabricate"
    /\ IF "wit" \in env.nofab
       THEN Finish(p, Ret("Error: Failed to get work item tracking client."))
       ELSE Step(p, [inv[p] EXCEPT !.pc = IF inv[p].tool = "get_work_item"
                                          THEN "fetch" ELSE "create"])

\* _get_work_item_impl with one id
Fetch(p) ==
    /\ inv[p].pc = "fetch"
    /\ LET getResp == inv[p].resps[1]
           c == [op |-> "get_work_item", id |-> inv[p].a.id.n,
                 expand |-> "all", resp |-> getResp]
       IN  Step(p, [inv[p] EXCEPT
                       !.pc = "done", !.calls = << c >>,
                       !.out = IF getResp.kind = "fail"
                               THEN Ret("Error retrieving work item "
                                        \o Str(inv[p].a.id) \o ": "
                                        \o getResp.msg)
                               ELSE Ret(format_work_item(getResp.v))])

\* _create_work_item_impl up to the test of parent_id
Create(p) ==
    /\ inv[p].pc = "create"
    /\ LET a == inv[p].a
           createResp == inv[p].resps[1]
           fields == _prepare_create_fields(
                         a.title, a.description, a.state, a.assigned_to,
                         a.iteration_path, a.area_path, a.story_points,
                         a.priority, a.tags)
           c1 == [op |-> "create_work_item",
                  document |-> _build_field_document(fields, "add"),
                  project |-> a.project, type |-> a.work_item_type,
                  resp |-> createResp]
       IN  IF createResp.kind = "fail"
           THEN Step(p, [inv[p] EXCEPT
                            !.pc = "done", !.calls = << c1 >>,
                            !.out = Ret("Error creating work item: "
                                        \o createResp.msg)])
           ELSE IF Truthy(a.parent_id)
           THEN Step(p, [inv[p] EXCEPT !.pc = "link", !.calls = << c1 >>,
                                       !.item = createResp.v])
           ELSE Step(p, [inv[p] EXCEPT
                            !.pc = "done", !.calls = << c1 >>,
                            !.item = createResp.v,
                            !.out = Ret(format_work_item(createResp.v))])

\* the link step of invocation p on the created item new_work_item
LinkOn(p, new_work_item) ==
    LET a == inv[p].a
        linkResp == inv[p].resps[2]
        c2 == [op |-> "update_work_item",
               document |-> _build_link_document(
                                a.parent_id,
                                "System.LinkTypes.Hierarchy-Reverse",
                                _get_organization_url(env)),
               id |-> new_work_item.id, project |-> a.project,
               resp |-> linkResp]
    IN  Step(p, [inv[p] EXCEPT
                    !.pc = "done", !.calls = inv[p].calls \o << c2 >>,
                    !.out = IF linkResp.kind = "fail"
                            THEN Ret("Work item created successfully, but failed to establish "
                                     \o "parent-child relationship: "
                                     \o linkResp.msg \o "\n\n"
                                     \o format_work_item(new_work_item))
                            ELSE Ret(format_work_item(linkResp.v))])

\* mutant: the created item is kept in a slot that all invocations share
Link_SharedItem(p) ==
    /\ inv[p].pc = "link"
    /\ \E q \in Procs : inv[q].item # NoneV /\ LinkOn(p, inv[q].item)

\* _create_work_item_impl from the test of parent_id on
Link(p) ==
    /\ inv[p].pc = "link"
    /\ LinkOn(p, inv[p].item)

\* the result is handed to the transport and the invocation is over
Return(p) ==
    /\ inv[p].pc = "done"
    /\ inv' = [inv EXCEPT ![p] = Fresh]
    /\ UNCHANGED <<env, tool, args, calls, out>>

ConcNext ==
    \E p \in Procs :
        \/ Dispatch(p)
        \/ Connect(p)
        \/ Fabricate(p)
        \/ Fetch(p)
        \/ Create(p)
        \/ Link(p)
        \/ Return(p)

ConcSpec == ConcInit /\ [][ConcNext]_vars

TypeOK == out.kind \in {"none", "return", "raise"}

(***************************************************************************)
(* Properties                                                              *)
(***************************************************************************)
\* both credentials are set and the work item tracking client is fabricated
WitAvailable ==
    /\ env.pat \notin {NoneV, S("")}
    /\ env.url \notin {NoneV, S("")}
    /\ "wit" \notin env.nofab

\* the calls of the invocation that went to operation op
CallsTo(op) == SelectSeq(calls, LAMBDA c : c.op = op)

\* the invocation created an item and the link call that followed raised
LinkStepFailed ==
    /\ tool = "create_work_item"
    /\ Len(calls) = 2
    /\ calls[1].op = "create_work_item" /\ calls[1].resp.kind = "ok"
    /\ calls[2].op = "update_work_item" /\ calls[2].resp.kind = "fail"

\* C1: when create succeeds and the link call raises, create_work_item
\* returns the full rendering of the created item together with a note that
\* the parent-child relationship failed, never a bare error string.
C1_PartialSuccessReported ==
    LinkStepFailed =>
        /\ out.kind = "return"
        /\ Contains(out.value, format_work_item(calls[1].resp.v))
        /\ Contains(out.value,
                    "failed to establish parent-child relationship")
        /\ ~StartsWith(out.value, "Error")

C1_Witness ==
    /\ LinkStepFailed
    /\ Truthy(args.parent_id)
    /\ out.kind = "return"

\* update_work_item was invoked with every optional field absent or empty
NoFieldSupplied ==
    /\ tool = "update_work_item"
    /\ \A n \in {"title", "description", "state", "assigned_to",
                 "iteration_path", "area_path", "tags"} :
           args[n] \in {NoneV, S("")}
    /\ args.story_points = NoneV
    /\ args.priority = NoneV

ValidationError == "Error: At least one field must be specified for update"

\* C2 as stated: with no optional field set, update_work_item returns the
\* validation error and issues no update call, whatever the environment.
C2_ValidationErrorInEveryEnvironment ==
    NoFieldSupplied =>
        /\ out = Ret(ValidationError)
        /\ Len(CallsTo("update_work_item")) = 0

\* C2 amended: with no optional field set, update_work_item issues no
\* backing call in any environment; it returns the validation error when
\* the work item tracking client can be obtained, and an "Error: " string
\* that is not the validation error when it cannot.
C2_ValidationErrorWhenClientAvailable ==
    NoFieldSupplied =>
        /\ calls = <<>>
        /\ out.kind = "return"
        /\ StartsWith(out.value, "Error: ")
        /\ (out.value = ValidationError) <=> WitAvailable

C2_Witness ==
    /\ NoFieldSupplied
    /\ WitAvailable
    /\ out = Ret(ValidationError)

\* some backing call of the invocation raised
SomeCallFailed == \E i \in 1..Len(calls) : calls[i].resp.kind = "fail"

\* C3: whatever backing call fails during the invocation of a tool, the
\* tool function ends by returning a string; no exception leaves it.
C3_NoExceptionLeavesTool ==
    (tool # "none" /\ SomeCallFailed) => out.kind = "return"

UsesWorkItemClient ==
    {"query_work_items", "get_work_item", "get_work_item_comments",
     "add_work_item_comment", "create_work_item", "update_work_item",
     "add_parent_child_link", "get_work_item_types", "get_work_item_type",
     "get_work_item_type_fields"}

CredentialsMissing == env.pat \in {NoneV, S("")} \/ env.url \in {NoneV, S("")}

\* the message of the client accessor that failed during the invocation,
\* "" when none did
FailedAccessorMessage ==
    IF tool \in UsesWorkItemClient \cup {"get_project_process_id"}
       /\ CredentialsMissing
    THEN NoCredentialsMsg
    ELSE IF tool \in UsesWorkItemClient /\ "wit" \in env.nofab
    THEN "Failed to get work item tracking client."
    ELSE IF tool = "get_project_process_id" /\ "core" \in env.nofab
    THEN "Failed to get Core client."
    ELSE IF tool = "get_work_item_type_fields" /\ "core" \in env.nofab
            /\ Len(calls) = 1 /\ calls[1].resp.kind = "ok"
            /\ calls[1].resp.v # NoneV
    THEN "Failed to get Core client."
    ELSE IF tool = "get_work_item_type_fields" /\ "process" \in env.nofab
            /\ Len(calls) = 2 /\ calls[2].resp.kind = "ok"
            /\ Truthy(ProcessTemplateValue(calls[2].resp.v, "templateTypeId"))
    THEN "Failed to get Work Item Tracking Process client."
    ELSE ""

\* C4: when a credential is missing or a client accessor fabricates nothing,
\* the tool returns exactly "Error: " followed by the accessor's message,
\* also for the tools that obtain the core or process client in their
\* implementation.
C4_AccessorFailureRenderedExactly ==
    FailedAccessorMessage # "" =>
        out = Ret("Error: " \o FailedAccessorMessage)

\* the WIQL query of the invocation returned no work item reference
WiqlReturnedNothing ==
    /\ tool = "query_work_items"
    /\ Len(calls) >= 1
    /\ calls[1].op = "query_by_wiql"
    /\ calls[1].resp.kind = "ok"
    /\ calls[1].resp.v \in {NoneV, L(<<>>)}

\* C5: when the WIQL query returns zero references, query_work_items
\* returns exactly "No work items found matching the query." and performs
\* no batch fetch.
C5_EmptyQueryResult ==
    WiqlReturnedNothing =>
        /\ out = Ret("No work items found matching the query.")
        /\ Len(CallsTo("get_work_items")) = 0

C5_Witness ==
    /\ WiqlReturnedNothing
    /\ calls[1].resp.v = L(<<>>)
    /\ out.kind = "return"

\* get_work_item was given a list and the batch fetch returned
BatchReturned ==
    /\ tool = "get_work_item"
    /\ args.id.kind = "list"
    /\ Len(calls) = 1
    /\ calls[1].op = "get_work_items"
    /\ calls[1].error_policy = "omit"
    /\ calls[1].resp.kind = "ok"

\* the entries of the returned batch
Batch == IF calls[1].resp.v = NoneV THEN <<>> ELSE calls[1].resp.v.items

\* the renderings of the entries of a batch that are work items, in order
Renderings(batch) ==
    LET present == SelectSeq(batch, LAMBDA w : w # NoneV)
    IN  [i \in 1..Len(present) |-> format_work_item(present[i])]

\* C6: when the batch yields a work item for some ids and null for others,
\* get_work_item returns the renderings of exactly the non-null items in
\* batch order, without error text.
C6_NullEntriesOmitted ==
    (BatchReturned
     /\ (\E i \in 1..Len(Batch) : Batch[i] = NoneV)
     /\ (\E i \in 1..Len(Batch) : Batch[i] # NoneV)) =>
        /\ out = Ret(Join(Renderings(Batch), "\n\n"))
        /\ ~Contains(out.value, "Error")

C6_Witness ==
    /\ BatchReturned
    /\ Len(Batch) = 3
    /\ Batch[1] # NoneV /\ Batch[2] = NoneV /\ Batch[3] # NoneV
    /\ Batch[1] # Batch[3]
    /\ out.kind = "return"

NoWorkItemsMsg == "No work items found."

NoValidWorkItemsMsg == "No valid work items found with the provided IDs."

\* C7: get_work_item with a list answers "No work items found." exactly when
\* the batch is empty and "No valid work items found with the provided IDs."
\* exactly when the batch is non-empty and all null.
C7_TwoEmptyOutcomes ==
    BatchReturned =>
        /\ (out = Ret(NoWorkItemsMsg)) <=> (Len(Batch) = 0)
        /\ (out = Ret(NoValidWorkItemsMsg)) <=>
               (Len(Batch) > 0 /\ \A i \in 1..Len(Batch) : Batch[i] = NoneV)

C7_Witness ==
    /\ BatchReturned
    /\ Len(Batch) = 2
    /\ \A i \in 1..Len(Batch) : Batch[i] = NoneV
    /\ out = Ret(NoValidWorkItemsMsg)

\* the project a lookup response lets the tool derive (None when it does not)
DerivedProject(resp) ==
    IF resp.kind = "ok" /\ resp.v # NoneV
       /\ "System.TeamProject" \in DOMAIN resp.v.fields
    THEN resp.v.fields["System.TeamProject"] ELSE NoneV

ProjectErrorMsg == "Error retrieving work item " \o ToString(args.id) \o " to determine project"

\* the invocation began with exactly one lookup of the work item it is about
LookedUpFirst ==
    /\ Len(calls) >= 1
    /\ calls[1].op = "get_work_item"
    /\ calls[1].id = args.id
    /\ Len(CallsTo("get_work_item")) = 1

\* C8: get_work_item_comments without a project first looks the work item up
\* and fetches the comments in its System.TeamProject; when the lookup raises,
\* returns no fields or no TeamProject value, the result is the error
\* 'Error retrieving work item {id} to determine project' and the comments
\* fetch is not called; with a project supplied no lookup is made.
C8_ProjectResolvedBeforeFetch ==
    (tool = "get_work_item_comments" /\ WitAvailable) =>
        IF Truthy(args.project)
        THEN /\ Len(calls) = 1
             /\ calls[1].op = "get_comments"
             /\ calls[1].project = args.project
             /\ calls[1].work_item_id = args.id
        ELSE /\ LookedUpFirst
             /\ IF Truthy(DerivedProject(calls[1].resp))
                THEN /\ Len(calls) = 2
                     /\ calls[2].op = "get_comments"
                     /\ calls[2].project = DerivedProject(calls[1].resp)
                     /\ calls[2].work_item_id = args.id
                ELSE /\ Len(calls) = 1
                     /\ out = Ret(ProjectErrorMsg)

C8_Witness ==
    /\ tool = "get_work_item_comments"
    /\ args.project = NoneV
    /\ LookedUpFirst
    /\ calls[1].resp.kind = "ok"
    /\ calls[1].resp.v # NoneV
    /\ DOMAIN calls[1].resp.v.fields # {}
    /\ "System.TeamProject" \notin DOMAIN calls[1].resp.v.fields
    /\ out = Ret(ProjectErrorMsg)

\* C9: add_work_item_comment issues the create-comment call at most once and
\* only with a known project (the supplied one, or the one derived by the
\* lookup that precedes it); when no project can be derived no create-comment
\* call is issued; when the call succeeds the result is 'Comment added
\* successfully.' followed by the formatted new comment.
C9_CommentCreatedOnceWithProject ==
    tool = "add_work_item_comment" =>
        /\ Len(CallsTo("add_comment")) <= 1
        /\ \A i \in 1..Len(calls) :
              calls[i].op = "add_comment" =>
                  /\ Truthy(calls[i].project)
                  /\ calls[i].work_item_id = args.id
                  /\ calls[i].request = [text |-> args.text]
                  /\ IF Truthy(args.project)
                     THEN i = 1 /\ calls[i].project = args.project
                     ELSE /\ i = 2
                          /\ LookedUpFirst
                          /\ calls[i].project = DerivedProject(calls[1].resp)
                  /\ calls[i].resp.kind = "ok" =>
                         out = Ret("Comment added successfully.\n\n"
                                   \o _format_comment(calls[i].resp.v))
        /\ (WitAvailable /\ ~Truthy(args.project)) =>
              /\ LookedUpFirst
              /\ ~Truthy(DerivedProject(calls[1].resp)) =>
                     /\ Len(CallsTo("add_comment")) = 0
                     /\ out = Ret(ProjectErrorMsg)
              /\ Truthy(DerivedProject(calls[1].resp)) =>
                     Len(CallsTo("add_comment")) = 1
        /\ (WitAvailable /\ Truthy(args.project)) =>
              Len(CallsTo("add_comment")) = 1

C9_Witness ==
    /\ tool = "add_work_item_comment"
    /\ args.project = NoneV
    /\ Len(calls) = 2
    /\ LookedUpFirst
    /\ calls[2].op = "add_comment"
    /\ calls[2].project = S("P")
    /\ calls[2].resp.kind = "ok"
    /\ Contains(out.value, "Comment added successfully.\n\n## Comment by Ann")

\* the text that precedes the person in the rendering of each person field
PersonLabel ==
    "System.AssignedTo" :> "Assigned To: "
    @@ "System.CreatedBy" :> "Created By: "
    @@ "Microsoft.VSTS.Common.ActivatedBy" :> "Activated By: "
    @@ "Microsoft.VSTS.Common.ResolvedBy" :> "Resolved By: "
    @@ "System.ChangedBy" :> " by "

\* C10: for every person-valued field (assigned-to, created-by, activated-by,
\* resolved-by, changed-by) a mapping {displayName: A, uniqueName: b@x} is
\* rendered 'A (b@x)', an object exposing only display_name = A is rendered
\* 'A' without parentheses, and a bare scalar C is rendered 'C'.
C10_PersonThreeWayFallback ==
    tool = "format_work_item" =>
        \A n \in DOMAIN PersonLabel :
            n \in DOMAIN args.work_item.fields =>
                LET person == args.work_item.fields[n]
                    shown(name) == Contains(out.value \o "\n",
                                            PersonLabel[n] \o name \o "\n")
                IN  /\ person = Dict([displayName |-> S("A"),
                                      uniqueName |-> S("b@x")])
                           => shown("A (b@x)")
                    /\ person = Obj([display_name |-> S("A")]) => shown("A")
                    /\ person = S("C") => shown("C")

\* get_work_item_basic fetched a work item whose field mapping holds exactly
\* System.Title, System.WorkItemType and System.State
BasicOfThreeFields ==
    /\ tool = "get_work_item_basic"
    /\ Len(calls) = 1
    /\ calls[1].resp.kind = "ok"
    /\ DOMAIN calls[1].resp.v.fields
           = {"System.Title", "System.WorkItemType", "System.State"}

\* the header and the Type and State lines of the fetched work item
TitleTypeState ==
    LET w == calls[1].resp.v
    IN  "# Work Item " \o ToString(w.id.n) \o ": "
        \o w.fields["System.Title"].v
        \o "\nType: " \o w.fields["System.WorkItemType"].v
        \o "\nState: " \o w.fields["System.State"].v

\* C11 as stated: for a work item with only System.Title, System.WorkItemType
\* and System.State, basic formatting renders the header and the Type and
\* State lines and nothing else (no Project line, no Revision line, no
\* section).
C11_BasicRendersOnlyThreeFields ==
    BasicOfThreeFields =>
        /\ out = Ret(TitleTypeState)
        /\ ~Contains(out.value, "Project:")

\* the links of the work item expose the web address as the basic rendering
\* looks for it
HasWebUrl(w) ==
    /\ w._links # NoneV
    /\ "self" \in DOMAIN w._links.attrs
    /\ "html" \in DOMAIN w._links.attrs
    /\ "href" \in DOMAIN w._links.attrs.html.attrs

\* C11 amended: for such a work item basic formatting renders the header,
\* the Type and State lines and the line 'Project: Unknown', followed by a
\* 'Web URL:' line exactly when the item carries its links; no Revision line
\* and no section appear.
C11_BasicRendersFixedBlock ==
    BasicOfThreeFields =>
        /\ out = Ret(TitleTypeState \o "\nProject: Unknown"
                     \o IF HasWebUrl(calls[1].resp.v)
                        THEN "\nWeb URL: http://web/1" ELSE "")
        /\ ~Contains(out.value, "Revision:")
        /\ ~Contains(out.value, "## ")

C11_Witness ==
    /\ BasicOfThreeFields
    /\ calls[1].resp.v._links = NoneV
    /\ out = Ret("# Work Item 1: T\nType: Bug\nState: New\nProject: Unknown")

\* the reference names the claim gives for the known short names
KnownShortNames ==
    "title" :> "System.Title"
    @@ "description" :> "System.Description"
    @@ "assignedTo" :> "System.AssignedTo"
    @@ "iterationPath" :> "System.IterationPath"
    @@ "area_path" :> "System.AreaPath"
    @@ "storyPoints" :> "Microsoft.VSTS.Scheduling.StoryPoints"
    @@ "priority" :> "Microsoft.VSTS.Common.Priority"

\* C12: _ensure_system_prefix is idempotent; a name with a '.' and a name
\* outside the known short names come back unchanged; the known short names
\* map to their reference names.
C12_EnsureSystemPrefixIdempotent ==
    tool = "_ensure_system_prefix" =>
        LET x == args.field_name
        IN  /\ Ret(_ensure_system_prefix(out.value)) = out
            /\ Contains(x, ".") => out = Ret(x)
            /\ x \in {"CustomField", "Effort", ""} => out = Ret(x)
            /\ x \in DOMAIN KnownShortNames => out = Ret(KnownShortNames[x])

C12_Witness ==
    /\ tool = "_ensure_system_prefix"
    /\ args.field_name = "area_path"
    /\ out = Ret("System.AreaPath")

\* get_work_item_type_field got as far as naming the field: the type and the
\* process of the project are known and the process client is at hand
FieldLookupStarted ==
    /\ tool = "get_work_item_type_field"
    /\ Len(calls) >= 3
    /\ calls[1].op = "get_work_item_type"
    /\ calls[2].op = "get_project"

\* the reference names of the listed fields whose display name is the given
\* name up to case, in listing order
MatchingRefs(listed, name) ==
    LET hits == SelectSeq(listed,
                          LAMBDA f : f.attrs.name.kind = "str"
                                     /\ Lower(f.attrs.name.v) = Lower(name))
    IN  [i \in 1..Len(hits) |-> hits[i].attrs.reference_name.v]

\* every listed field has a display name
AllNamed(listed) == \A i \in 1..Len(listed) : listed[i].attrs.name.kind = "str"

\* C13: given a display name (no '.'), get_work_item_type_field lists the
\* fields of the type, takes the first field whose display name matches
\* case-insensitively, fetches the detail under that field's reference name
\* and returns what it returns when given the reference name itself; given a
\* name with a '.', it fetches the detail directly, without listing.
C13_DisplayNameResolvesToReferenceName ==
    FieldLookupStarted =>
        IF Contains(args.field_name, ".")
        THEN /\ Len(calls) = 3
             /\ calls[3].op = "get_work_item_type_field"
             /\ calls[3].field = args.field_name
        ELSE /\ calls[3].op = "get_all_work_item_type_fields"
             /\ Len(calls) <= 4
             /\ (calls[3].resp.kind = "ok" /\ calls[3].resp.v # NoneV
                 /\ AllNamed(calls[3].resp.v.items)) =>
                   LET refs == MatchingRefs(calls[3].resp.v.items,
                                            args.field_name)
                   IN  IF Len(refs) = 0 THEN Len(calls) = 3
                       ELSE /\ Len(calls) = 4
                            /\ calls[4].op = "get_work_item_type_field"
                            /\ calls[4].field = refs[1]
                            /\ calls[4].process_id = calls[3].process_id
                            /\ calls[4].wit_ref_name = calls[3].wit_ref_name
             /\ Len(calls) = 4 =>
                   out = get_work_item_type_field(
                             env, args.project, args.type_name,
                             calls[4].field, calls[1].resp, calls[2].resp,
                             calls[3].resp, calls[4].resp).out

C13_Witness ==
    /\ FieldLookupStarted
    /\ args.field_name = "priority"
    /\ Len(calls) = 4
    /\ Len(calls[3].resp.v.items) = 2
    /\ calls[3].resp.v.items[2].attrs.name = S("Priority")
    /\ calls[4].field = "Microsoft.VSTS.Common.Priority"
    /\ calls[4].resp.kind = "ok"
    /\ calls[4].resp.v # NoneV
    /\ Contains(out.value, "Reference Name: Microsoft.VSTS.Common.Priority")

\* C14: every 'field not found' message and every error message of
\* get_work_item_type_field names the field as the caller passed it, with the
\* requested type and project, also when a display name was resolved and the
\* detail fetch then returned nothing or raised.
C14_MessagesNameRequestedField ==
    (tool = "get_work_item_type_field" /\ out.kind = "return"
     /\ (Contains(out.value, "not found for work item type")
         \/ StartsWith(out.value, "Error retrieving field"))) =>
        \/ out.value = FieldNotFoundMsg(args.field_name, args.type_name,
                                        args.project)
        \/ StartsWith(out.value,
                      FieldErrorPrefix(args.field_name, args.type_name,
                                       args.project))

\* the positions in the call log of the calls to operation op
PositionsOf(op) == { i \in 1..Len(calls) : calls[i].op = op }

\* the calls of a create_work_item invocation after its first are in
\* sequence: at most one link call, issued only after a create call that
\* succeeded and only with a parent_id, and nothing after a failed link call
LinkFollowsCreate ==
    /\ \A i \in PositionsOf("update_work_item") :
          /\ i = 2
          /\ calls[1].op = "create_work_item"
          /\ calls[1].resp.kind = "ok"
          /\ calls[i].id = calls[1].resp.v.id
          /\ args.parent_id # NoneV
          /\ calls[i].resp.kind = "fail" => Len(calls) = i
    /\ \A i \in 1..Len(calls) :
          calls[i].op \in {"create_work_item", "update_work_item"}

\* C15 as stated: in every create_work_item invocation the create call is
\* issued exactly once and before any link call; the link call is issued at
\* most once, only after a successful create and with a parent_id; after a
\* failed link call no further backing call is issued.
C15_CreateOnceThenLink ==
    tool = "create_work_item" =>
        /\ PositionsOf("create_work_item") = {1}
        /\ LinkFollowsCreate

\* C15 amended: the same, with the create call issued exactly once in every
\* invocation that obtains the work item tracking client and not at all in
\* the others.
C15_CreateOnceThenLinkWhenClientAvailable ==
    tool = "create_work_item" =>
        /\ PositionsOf("create_work_item") = IF WitAvailable THEN {1} ELSE {}
        /\ LinkFollowsCreate

C15_Witness ==
    /\ tool = "create_work_item"
    /\ Len(calls) = 2
    /\ calls[1].op = "create_work_item"
    /\ calls[1].resp.kind = "ok"
    /\ calls[2].op = "update_work_item"
    /\ calls[2].resp.kind = "fail"
    /\ out.kind = "return"

\* the link patch the claims describe for the parent with the given id
ReverseLinkPatch(parent) ==
    << [op |-> "add", path |-> "/relations/-",
        value |-> [rel |-> "System.LinkTypes.Hierarchy-Reverse",
                   url |-> "https://dev.azure.com/org/_apis/wit/workItems/"
                           \o ToString(parent)]] >>

\* C16: whenever a parent_id is supplied, whatever integer it is,
\* create_work_item issues after the create call a second patch on the new
\* item: a single 'add' on '/relations/-' of a
\* System.LinkTypes.Hierarchy-Reverse relation whose url is
\* '{organization_url}/_apis/wit/workItems/{parent_id}', with no '//' before
\* '_apis'.
C16_LinkPatchForEveryParentId ==
    (tool = "create_work_item" /\ args.parent_id # NoneV
     /\ Len(calls) >= 1 /\ calls[1].resp.kind = "ok") =>
        /\ Len(calls) = 2
        /\ calls[2].op = "update_work_item"
        /\ calls[2].id = calls[1].resp.v.id
        /\ calls[2].document = ReverseLinkPatch(args.parent_id.n)
        /\ ~Contains(calls[2].document[1].value.url, "//_apis")

\* the parameters of create and update that become fields, in the order in
\* which the field mapping is filled, with their reference names
FieldParameters ==
    << << "title", "System.Title" >>,
       << "description", "System.Description" >>,
       << "state", "System.State" >>,
       << "assigned_to", "System.AssignedTo" >>,
       << "iteration_path", "System.IterationPath" >>,
       << "area_path", "System.AreaPath" >>,
       << "story_points", "Microsoft.VSTS.Scheduling.StoryPoints" >>,
       << "priority", "Microsoft.VSTS.Common.Priority" >>,
       << "tags", "System.Tags" >> >>

\* the parameter was supplied and is not empty
SuppliedNonEmpty(param) == args[param] \notin {NoneV, S("")}

\* the operation and path of every entry of a patch document
OpsAndPaths(document) ==
    [i \in 1..Len(document) |-> << document[i].op, document[i].path >>]

\* one operation on '/fields/{reference-name}' for each of the given
\* parameters
OpsFor(operation, params) ==
    [i \in 1..Len(params) |-> << operation, "/fields/" \o params[i][2] >>]

\* the document builder turns every entry of the mapping into one operation,
\* in order, and does not prefix a name that is already a path
BuilderKeepsEntries ==
    tool = "_build_field_document" =>
        /\ Len(out.value) = Len(args.fields)
        /\ \A i \in 1..Len(args.fields) :
              /\ out.value[i].op = args.operation
              /\ out.value[i].value = args.fields[i][2]
              /\ out.value[i].path =
                     IF StartsWith(args.fields[i][1], "/fields/")
                     THEN args.fields[i][1]
                     ELSE "/fields/" \o args.fields[i][1]

\* the document of the update call is made of 'replace' operations, one for
\* each parameter supplied non-empty
UpdateDocumentShape ==
    (tool = "update_work_item" /\ Len(calls) = 1) =>
        OpsAndPaths(calls[1].document)
            = OpsFor("replace",
                     SelectSeq(FieldParameters,
                               LAMBDA p : SuppliedNonEmpty(p[1])))

\* C17 as stated: the document of create_work_item holds one 'add' operation
\* on '/fields/{reference-name}' for a field if and only if the field was
\* supplied non-empty; update_work_item builds the same with 'replace'; a
\* name starting with '/fields/' is not prefixed again; there is one
\* operation per entry of the field mapping, in its order.
C17_OneOperationPerNonEmptyField ==
    /\ (tool = "create_work_item" /\ Len(calls) >= 1) =>
           OpsAndPaths(calls[1].document)
               = OpsFor("add",
                        SelectSeq(FieldParameters,
                                  LAMBDA p : SuppliedNonEmpty(p[1])))
    /\ UpdateDocumentShape
    /\ BuilderKeepsEntries

\* C17 amended: as stated, except that the document of create_work_item
\* always holds the operation for the title, also when the title is empty;
\* story points and priority count as supplied whenever they are not null.
C17_OneOperationPerFieldOfMapping ==
    /\ (tool = "create_work_item" /\ Len(calls) >= 1) =>
           OpsAndPaths(calls[1].document)
               = OpsFor("add",
                        SelectSeq(FieldParameters,
                                  LAMBDA p : p[1] = "title"
                                             \/ SuppliedNonEmpty(p[1])))
    /\ UpdateDocumentShape
    /\ BuilderKeepsEntries

C17_Witness ==
    /\ tool = "create_work_item"
    /\ Len(calls) >= 1
    /\ args.story_points = F(0)
    /\ OpsAndPaths(calls[1].document)
           = << << "add", "/fields/System.Title" >>,
                << "add", "/fields/Microsoft.VSTS.Scheduling.StoryPoints" >> >>

\* every backing call of the add_parent_child_link invocation is an update of
\* the child that adds the reverse hierarchy relation pointing at the parent
OnlyChildPatched ==
    \A i \in 1..Len(calls) :
        /\ calls[i].op = "update_work_item"
        /\ calls[i].id = args.child_id
        /\ calls[i].project = args.project
        /\ calls[i].document = ReverseLinkPatch(args.parent_id)

\* C18 as stated: add_parent_child_link issues exactly one backing call, an
\* update of the child whose patch adds a System.LinkTypes.Hierarchy-Reverse
\* relation with url '{organization_url}/_apis/wit/workItems/{parent_id}';
\* the parent is never the target of an update.
C18_ExactlyOnePatchOnChild ==
    tool = "add_parent_child_link" =>
        /\ Len(calls) = 1
        /\ OnlyChildPatched
        /\ \A i \in 1..Len(calls) : calls[i].id # args.parent_id

\* C18 amended: add_parent_child_link issues exactly one backing call when
\* the work item tracking client is obtained and none otherwise; the call is
\* an update of the child with the reverse hierarchy patch pointing at the
\* parent, so no item other than the child is ever the target of an update.
C18_OnePatchOnChildWhenClientAvailable ==
    tool = "add_parent_child_link" =>
        /\ Len(calls) = IF WitAvailable THEN 1 ELSE 0
        /\ OnlyChildPatched

C18_Witness ==
    /\ tool = "add_parent_child_link"
    /\ args.parent_id = 1
    /\ args.child_id = 2
    /\ Len(calls) = 1
    /\ calls[1].id = 2
    /\ calls[1].resp.kind = "ok"
    /\ out.kind = "return"

\* the text has the given line
HasLine(text, line) == Contains("\n" \o text \o "\n", "\n" \o line \o "\n")

\* the text has a line that starts with the given label
HasLabel(text, label) == Contains("\n" \o text, "\n" \o label)

\* the number of lines of a text
NumLines(text) ==
    1 + Cardinality({ i \in 1..Len(text) : SubSeq(text, i, i) = "\n" })

\* the object has the attribute with a truthy value
Filled(o, attr) == attr \in DOMAIN o.attrs /\ Truthy(o.attrs[attr])

\* the optional attributes of the object that are filled
FilledOf(o, labels) == { attr \in DOMAIN labels : Filled(o, attr) }

\* each optional attribute has its line in the output if and only if it is
\* filled; an attribute that is not filled has no line at all
OptionalShown(o, labels) ==
    \A attr \in DOMAIN labels :
        IF Filled(o, attr)
        THEN HasLine(out.value, labels[attr] \o o.attrs[attr].v)
        ELSE ~HasLabel(out.value, labels[attr])

ProjectLabels ==
    [description |-> "Description: ", state |-> "State: ",
     visibility |-> "Visibility: ", url |-> "URL: ",
     last_update_time |-> "Last Updated: "]

TeamLabels ==
    [description |-> "Description: ", project_name |-> "Project: ",
     project_id |-> "Project ID: "]

IdentityLabels ==
    [display_name |-> "# Member: ", id |-> "ID: ",
     descriptor |-> "Descriptor: ", unique_name |-> "Email/Username: "]

IterationLabels == [id |-> "ID: ", path |-> "Path: "]

IterationAttributeLabels ==
    [start_date |-> "Start Date: ", finish_date |-> "Finish Date: ",
     time_frame |-> "Time Frame: "]

\* an object without attributes, for the labels of a part that is missing
NoObject == Obj(<<>>)

\* the part of the object under attr, when it is filled
PartOf(o, attr) == IF Filled(o, attr) THEN o.attrs[attr] ELSE NoObject

\* C19: in the project, team, team-member, area-path and iteration
\* formatters the line of an optional field is in the output if and only if
\* the object has the attribute with a truthy value; the output has no line
\* beyond the fixed ones and those of the filled fields, and shows no value
\* for a field that is not filled.
C19_OptionalLinesIffTruthy ==
    /\ tool = "_format_project" =>
          /\ OptionalShown(args.object, ProjectLabels)
          /\ NumLines(out.value)
                 = 2 + Cardinality(FilledOf(args.object, ProjectLabels))
    /\ tool = "_format_team" =>
          /\ OptionalShown(args.object, TeamLabels)
          /\ NumLines(out.value)
                 = 2 + Cardinality(FilledOf(args.object, TeamLabels))
    /\ (tool = "_format_team_member" /\ out.kind = "return") =>
          LET identity == PartOf(args.object, "identity")
          IN  /\ OptionalShown(identity, IdentityLabels)
              /\ ~Filled(identity, "id") => ~Contains(out.value, "ID: ")
              /\ NumLines(out.value)
                     = 1 + Cardinality(FilledOf(identity, IdentityLabels)
                                       \ {"display_name"})
                       + (IF "is_team_admin" \in DOMAIN args.object.attrs
                          THEN 1 ELSE 0)
    /\ tool = "_format_team_area_path" =>
          /\ OptionalShown(args.object,
                           [default_value |-> "Default Area Path: "])
          /\ HasLine(out.value, "## All Area Paths:")
                 <=> Filled(args.object, "values")
          /\ NumLines(out.value)
                 = 1 + (IF Filled(args.object, "default_value") THEN 1 ELSE 0)
                   + (IF Filled(args.object, "values")
                      THEN 2 + Len(args.object.attrs.values.items) ELSE 0)
    /\ tool = "_format_team_iteration" =>
          LET attributes == PartOf(args.object, "attributes")
          IN  /\ OptionalShown(args.object, IterationLabels)
              /\ OptionalShown(attributes, IterationAttributeLabels)
              /\ NumLines(out.value)
                     = 1 + Cardinality(FilledOf(args.object, IterationLabels))
                       + Cardinality(FilledOf(attributes,
                                              IterationAttributeLabels))

\* the rendering of a work item that is being returned
FormattedItem == tool = "format_work_item" /\ out.kind = "return"

\* the mapping holds the key with a truthy value
KeyTruthy(fields, key) == key \in DOMAIN fields /\ Truthy(fields[key])

\* the first line carries a title after the id
TitleShown(text, work_item) ==
    ~HasLine(text, "# Work Item " \o Str(work_item.id) \o ": ")

\* C20: in format_work_item the line or section of a field is in the output
\* if and only if the field mapping has the key and its value is truthy: a
\* field present with an empty value (System.Description, System.Reason,
\* System.IterationPath) and an absent field (System.Title, System.State)
\* produce no line or section.
C20_FieldLineIffKeyTruthy ==
    FormattedItem =>
        LET fields == args.work_item.fields
            text == out.value
        IN  /\ HasLabel(text, "## Description")
                <=> KeyTruthy(fields, "System.Description")
            /\ HasLabel(text, "Reason: ") <=> KeyTruthy(fields, "System.Reason")
            /\ HasLabel(text, "Iteration: ")
                <=> KeyTruthy(fields, "System.IterationPath")
            /\ HasLabel(text, "Tags: ") <=> KeyTruthy(fields, "System.Tags")
            /\ HasLabel(text, "State: ") <=> KeyTruthy(fields, "System.State")
            /\ TitleShown(text, args.work_item)
                <=> KeyTruthy(fields, "System.Title")

\* C20 (amended): in format_work_item the section of System.Description and
\* the lines of System.Reason and System.IterationPath are in the output if
\* and only if the field mapping has the key, whatever its value; only the
\* line of System.Tags also needs a truthy value; the title and the state
\* line are always rendered, as "Untitled" and "Unknown" when the key is
\* absent.
C20_FieldLineIffKeyPresent ==
    FormattedItem =>
        LET fields == args.work_item.fields
            text == out.value
        IN  /\ HasLabel(text, "## Description")
                <=> "System.Description" \in DOMAIN fields
            /\ HasLabel(text, "Reason: ") <=> "System.Reason" \in DOMAIN fields
            /\ HasLabel(text, "Iteration: ")
                <=> "System.IterationPath" \in DOMAIN fields
            /\ HasLabel(text, "Tags: ") <=> KeyTruthy(fields, "System.Tags")
            /\ HasLine(text, "State: "
                    \o Str(Get(fields, "System.State", S("Unknown"))))
            /\ HasLine(text, "# Work Item " \o Str(args.work_item.id) \o ": "
                    \o Str(Get(fields, "System.Title", S("Untitled"))))

\* a work item whose description, reason and iteration path are empty and
\* whose title and state are absent has been rendered
C20_Witness ==
    /\ FormattedItem
    /\ args.work_item.fields =
           [K \in {"System.Description", "System.Reason",
                   "System.IterationPath"} |-> S("")]
    /\ HasLine(out.value, "Reason: ")
    /\ HasLine(out.value, "# Work Item 1: Untitled")

\* a team member that carries the administrator flag has been handed over
AdminFlagged == tool = "_format_team_member" /\ HasAttr(args.object, "is_team_admin")

\* a work item whose mapping has the done flag has been rendered
DoneFlagged == FormattedItem /\ "System.BoardColumnDone" \in DOMAIN args.work_item.fields

YesNo(v) == IF Truthy(v) THEN "Yes" ELSE "No"

\* some line of the text ends with the status
HasStatus(text, status) == Contains(text \o "\n", ": " \o status \o "\n")

AreaPathLine(area_path) ==
    "- " \o area_path.attrs.value.v
    \o (IF HasAttr(area_path, "include_children")
           /\ area_path.attrs.include_children = B(TRUE)
        THEN " (Including sub-areas)" ELSE "")

\* the team field values were fetched
AreaPathsFetched ==
    /\ tool = "get_team_area_paths"
    /\ Len(calls) = 1
    /\ calls[1].resp.kind = "ok"

\* the lines of the text after the heading of the assigned paths
AssignedLines(values) == [i \in 1..Len(values) |-> AreaPathLine(values[i])]

\* C22: area-path formatting renders each assigned path on its own line, with
\* the suffix " (Including sub-areas)" when include_children is True and no
\* suffix when it is False; get_team_area_paths returns the "No area paths
\* found for team {team} in project {project}." message when the fetched
\* result is falsy.
C22_AreaPathLinesAndEmptyMessage ==
    /\ tool = "_format_team_area_path"
          /\ HasAttr(args.object, "values") /\ Truthy(args.object.attrs.values) =>
          LET values == args.object.attrs.values.items
          IN  /\ \A i \in 1..Len(values) :
                    HasLine(out.value, AreaPathLine(values[i]))
              /\ \E head \in {"", "\nDefault Area Path: P\\A"} :
                    out.value = "# Team Area Paths" \o head
                                \o "\n\n## All Area Paths:\n"
                                \o Join(AssignedLines(values), "\n")
    /\ AreaPathsFetched =>
          IF ~Truthy(calls[1].resp.v)
          THEN out = Ret("No area paths found for team " \o args.team
                         \o " in project " \o args.project \o ".")
          ELSE out = Ret(_format_team_area_path(calls[1].resp.v))

\* the tool has fetched and rendered a path with sub-areas and a path without
C22_Witness ==
    /\ AreaPathsFetched
    /\ HasLine(out.value, "## All Area Paths:")
    /\ HasLine(out.value, "- P\\A (Including sub-areas)")
    /\ HasLine(out.value, "- P\\B")

\* the tools that derive the process id of a project
ProcessIdTools ==
    {"get_project_process_id", "get_work_item_type_fields",
     "get_work_item_type_field"}

\* the operations of the process client
ProcessClientOps == {"get_all_work_item_type_fields", "get_work_item_type_field"}

\* the project was fetched and its capabilities hold no process id
NoProcessId ==
    /\ tool \in ProcessIdTools
    /\ \E i \in 1..Len(calls) :
          /\ calls[i].op = "get_project"
          /\ calls[i].resp.kind = "ok"
          /\ LET capabilities == calls[i].resp.v.attrs.capabilities.d
             IN  \/ "processTemplate" \notin DOMAIN capabilities
                 \/ "templateTypeId" \notin DOMAIN capabilities.processTemplate.d
                 \/ capabilities.processTemplate.d.templateTypeId \in {NoneV, S("")}

\* C23: the process id of a project is derived from the capabilities at
\* processTemplate.templateTypeId; when that key is absent or empty,
\* get_project_process_id, get_work_item_type_fields and
\* get_work_item_type_field return a "Could not determine process ID for
\* project {project}" message, which is not an error result, and make no
\* call on the process client.
C23_NoProcessIdIsReportedWithoutProcessCall ==
    /\ NoProcessId =>
          /\ out.kind = "return"
          /\ StartsWith(out.value, "Could not determine process ID for project "
                                   \o args.project)
          /\ ~StartsWith(out.value, "Error")
          /\ \A i \in 1..Len(calls) : calls[i].op \notin ProcessClientOps
    /\ tool \in ProcessIdTools /\ ~NoProcessId /\ out.kind = "return" =>
          ~StartsWith(out.value, "Could not determine process ID")
    /\ tool = "get_project_process_id" /\ Len(calls) = 1
          /\ calls[1].resp.kind = "ok" /\ ~NoProcessId =>
          HasLine(out.value, "Process ID: "
              \o calls[1].resp.v.attrs.capabilities.d.processTemplate.d.templateTypeId.v)

\* the field lookup has found a project whose process template has an empty
\* id and has reported it
C23_Witness ==
    /\ tool = "get_work_item_type_field"
    /\ NoProcessId
    /\ Len(calls) = 2
    /\ calls[2].resp.v.attrs.capabilities =
           Dict([processTemplate |->
                    Dict([templateTypeId |-> S(""), templateName |-> S("Agile")])])
    /\ out.value = "Could not determine process ID for project P"

\* a credential that is not set or is the empty string
Missing(credential) == credential \in {NoneV, S("")}

\* C24: get_connection returns the absence signal (None), without raising,
\* exactly when the token or the organization URL is absent or empty; when
\* both are present it returns a session bound to the organization URL that
\* carries the token as the password of a basic authentication with an empty
\* user name.
C24_ConnectionAbsentIffCredentialMissing ==
    tool = "get_connection" =>
        /\ out.kind = "return"
        /\ calls = <<>>
        /\ out.value = NoneV <=> (Missing(env.pat) \/ Missing(env.url))
        /\ out.value # NoneV =>
              /\ out.value.attrs.base_url = env.url
              /\ out.value.attrs.creds.attrs.username = S("")
              /\ out.value.attrs.creds.attrs.password = env.pat

\* a connection has been asked for with a token and no organization URL
C24_Witness ==
    /\ tool = "get_connection"
    /\ env.pat = S("pat")
    /\ env.url = S("")
    /\ out = Ret(NoneV)

\* a client accessor has been called
AccessorCalled == tool \in ClientAccessors

\* the fabrication each accessor asks of the connection
FabricationOf(accessor) ==
    CASE accessor = "work_items.common.get_work_item_client" -> "wit"
      [] accessor = "teams.common.get_work_client" -> "work"
      [] accessor = "utils.azure_client.get_work_item_tracking_process_client" -> "process"
      [] OTHER -> "core"

\* the typed error of the features: the class AzureDevOpsClientError, which
\* the work-item and the team features each define
ClientErrorKinds == {"AzureDevOpsClientError", "teams.AzureDevOpsClientError"}

\* C25: every client accessor fails in two stages that callers can tell
\* apart by message but not by kind: missing credentials and a fabrication
\* that yields nothing raise the same error kind with different messages,
\* and that kind is the same typed error for all accessors.
C25_AccessorsRaiseOneTypedError ==
    AccessorCalled =>
        /\ out.kind = "raise"
              <=> (Missing(env.pat) \/ Missing(env.url)
                   \/ FabricationOf(tool) \in env.nofab)
        /\ out.kind = "raise" =>
              /\ out.type \in ClientErrorKinds
              /\ out.msg = NoCredentialsMsg
                    <=> (Missing(env.pat) \/ Missing(env.url))

\* what invocation p returns, and the calls it makes, when it runs alone
\* against the responses it is answered with
Alone(p) ==
    IF inv[p].tool = "get_work_item"
    THEN get_work_item(env, inv[p].a.id, inv[p].resps[1], inv[p].resps[1])
    ELSE create_work_item(env, inv[p].a, inv[p].resps[1], inv[p].resps[2])

\* every invocation past its connect step holds the connection built from
\* the environment, and every finished one holds the result and the calls
\* of a run alone
IsolatedResults ==
    \A p \in Procs :
        /\ inv[p].pc \in {"fabricate", "fetch", "create", "link"} =>
              inv[p].connection = get_connection(env)
        /\ inv[p].pc = "done" =>
              /\ inv[p].out = Alone(p).out
              /\ inv[p].calls = Alone(p).calls

\* a step leaves the environment and the locals of all invocations but one
\* as they are
NoSharedMutation ==
    /\ env' = env
    /\ \E p \in Procs : \A q \in Procs \ {p} : inv'[q] = inv[q]

\* C26: tool invocations are safe under concurrent dispatch: no invocation
\* mutates state shared with another, each invocation builds its own
\* connection and client, and for any interleaving of two or more
\* invocations each one returns the result it returns when run alone against
\* the same backing responses.
C26_ConcurrentInvocationsAreIsolated ==
    [](IsolatedResults) /\ [][NoSharedMutation]_vars

\* two invocations that created different items have overlapped, and the one
\* whose link step failed has reported its own item
C26_Witness ==
    /\ inv["a"].pc = "done"
    /\ inv["a"].overlapped
    /\ inv["a"].tool = "create_work_item"
    /\ Len(inv["a"].calls) = 2
    /\ inv["a"].calls[2].resp.kind = "fail"
    /\ inv["b"].pc = "link"
    /\ inv["b"].item # inv["a"].item

\* the resource has fetched a work item
ResourceFetched ==
    /\ tool = "azuredevops://workitems/{id}"
    /\ Len(calls) = 1
    /\ calls[1].resp.kind = "ok"

\* C27: the URL-templated work-item resource (azuredevops://workitems/{id})
\* returns, for every work item, the same markdown as the tool-based lookup
\* get_work_item returns for that single id.
C27_ResourceRendersLikeTool ==
    ResourceFetched =>
        out = get_work_item(env, I(calls[1].id), calls[1].resp, calls[1].resp).out

\* the cell of a record: its value, or N/A when the attribute is absent or
\* holds no value
Cell(record, attr) ==
    IF HasAttr(record, attr) /\ record.attrs[attr] # NoneV
    THEN Str(record.attrs[attr]) ELSE "N/A"

\* one row per record, in order
RowsOf(records) ==
    [i \in 1..Len(records) |->
        "| " \o Cell(records[i], "name") \o " | "
        \o Cell(records[i], "reference_name") \o " | "
        \o Cell(records[i], "description") \o " |"]

\* the work item types of a project were listed and there are some
TypesListed ==
    /\ tool = "get_work_item_types"
    /\ Len(calls) = 1
    /\ calls[1].resp.kind = "ok"
    /\ Truthy(calls[1].resp.v)

\* C28: every tabular formatter outputs a header row, then one separator row
\* with "----" for each column, then exactly one row per record in input
\* order, and each row shows "N/A" in every cell whose value is missing,
\* whether the attribute is absent or present with no value.
C28_TableRowsShowNAForMissingCells ==
    TypesListed =>
        out = Ret("# Work Item Types in Project: " \o args.project \o "\n\n"
                  \o Join(<< "| Name | Reference Name | Description |",
                             "| ---- | ---- | ---- |" >>
                          \o RowsOf(calls[1].resp.v.items), "\n"))

\* a batch answer that holds results, all of them null
AllNull(resp) ==
    /\ resp.kind = "ok"
    /\ resp.v.kind = "list"
    /\ Len(resp.v.items) > 0
    /\ \A i \in 1..Len(resp.v.items) : resp.v.items[i] = NoneV

\* the query has returned at least one reference
QueryMatched ==
    /\ tool = "query_work_items"
    /\ Len(calls) >= 1
    /\ calls[1].resp.kind = "ok"
    /\ Truthy(calls[1].resp.v)

\* C29: query_work_items, when the WIQL query returns at least one
\* reference, issues exactly one batch fetch with the "omit" error policy
\* over exactly the returned ids and returns the renderings of the non-null
\* results joined by blank lines; when every batch result is null it returns
\* the empty string, not a "no work items" message, unlike get_work_item
\* with a list, which returns "No valid work items found with the provided
\* IDs." in that case.
C29_QueryBatchFetchDropsNulls ==
    /\ QueryMatched =>
          /\ Len(calls) = 2
          /\ calls[2].op = "get_work_items"
          /\ calls[2].error_policy = "omit"
          /\ calls[2].ids = calls[1].resp.v.items
          /\ calls[2].resp.kind = "ok" /\ calls[2].resp.v.kind = "list" =>
                out = Ret(Join(Renderings(calls[2].resp.v.items), "\n\n"))
          /\ AllNull(calls[2].resp) => out = Ret("")
    /\ tool = "get_work_item" /\ args.id.kind = "list" /\ Len(calls) = 1
          /\ AllNull(calls[1].resp) =>
          out = Ret("No valid work items found with the provided IDs.")

\* a query with two references has been answered with one null and one work
\* item, and only the work item has been rendered
C29_Witness ==
    /\ QueryMatched
    /\ Len(calls[1].resp.v.items) = 2
    /\ calls[2].resp.kind = "ok"
    /\ calls[2].resp.v.kind = "list"
    /\ Len(calls[2].resp.v.items) = 2
    /\ calls[2].resp.v.items[1] = NoneV
    /\ calls[2].resp.v.items[2] # NoneV
    /\ out = Ret(format_work_item(calls[2].resp.v.items[2]))

\* create_work_item has created an item
ItemCreated ==
    /\ tool = "create_work_item"
    /\ Len(calls) >= 1
    /\ calls[1].op = "create_work_item"
    /\ calls[1].resp.kind = "ok"

\* C30: the work item that create_work_item renders is determined by which
\* steps succeeded: with no parent_id, or after a failed link step, it is the
\* item returned by the create call; after a successful link step it is the
\* item returned by the link (update) call.  A failed link step never
\* changes or discards the item returned by create.
C30_RenderedItemFollowsSucceededSteps ==
    ItemCreated =>
        LET created == calls[1].resp.v
        IN  /\ args.parent_id = NoneV => Len(calls) = 1
            /\ Len(calls) = 1 => out = Ret(format_work_item(created))
            /\ Len(calls) = 2 /\ calls[2].resp.kind = "fail" =>
                  /\ out.kind = "return"
                  /\ StartsWith(out.value, "Work item created successfully, but failed to establish parent-child relationship: "
                                           \o calls[2].resp.msg \o "\n\n")
                  /\ out.value = "Work item created successfully, but failed to establish parent-child relationship: "
                                 \o calls[2].resp.msg \o "\n\n"
                                 \o format_work_item(created)
            /\ Len(calls) = 2 /\ calls[2].resp.kind = "ok" =>
                  out = Ret(format_work_item(calls[2].resp.v))
            /\ Len(calls) <= 2

\* an item has been created and linked, the link call has answered with a
\* different item, and that one has been rendered
C30_Witness ==
    /\ ItemCreated
    /\ Len(calls) = 2
    /\ calls[2].resp.kind = "ok"
    /\ calls[2].resp.v # calls[1].resp.v
    /\ out = Ret(format_work_item(calls[2].resp.v))
    /\ out # Ret(format_work_item(calls[1].resp.v))

====
